---- MODULE Spec2Model ----
(***************************************************************************)
(* A model of the memcached binary-protocol client: the value transcoder   *)
(* (protocol/parse.rs, client/values), the packet codec                    *)
(* (protocol/binary_packet.rs), the operation layer (protocol/mod.rs), the *)
(* client facade with its sharding router (client/mod.rs) and the          *)
(* connection pool it borrows connections from.  The memcached server and  *)
(* the pool are the environment of the client code.                        *)
(*                                                                         *)
(* The wire is modelled at the level of packets: a connection's stream is  *)
(* the sequence of response packets the server has written and the client  *)
(* has not read yet, plus the number of bytes already consumed from the    *)
(* first of them (non-zero only after a failed header read).               *)
(***************************************************************************)
EXTENDS Integers, Sequences, FiniteSets, TLC

(***************************************************************************)
(* Bounds of the model.                                                    *)
(***************************************************************************)
\* Number of client operations started in one behaviour.
MaxOps == 2
\* Longest key list handed to gets.
MaxGetsKeys == 2

(***************************************************************************)
(* Program constants.                                                      *)
(***************************************************************************)
MaxKeyLen == 250
MagicRequest == 128
MagicResponse == 129
OK_STATUS == 0
StKeyNotFound == 1
StKeyExists == 2
StValueTooLarge == 3
StInvalidArguments == 4
StNotStored == 5
StNonNumeric == 6
StAuthRequired == 32
\* A status the client has no name for (the protocol's "unknown command").
StUnknownCommand == 129

StBusy == 133
OpGet == 0
OpSet == 1
OpAdd == 2
OpReplace == 3
OpDelete == 4
OpIncrement == 5
OpDecrement == 6
OpFlush == 8
OpNoop == 10
OpVersion == 11
OpGetKQ == 13
OpAppend == 14
OpPrepend == 15
OpStat == 16
OpTouch == 28
\* Flags::Bytes, the only flags value the client writes.
FlagsBytes == 0
\* Client::connect builds every pool with max_idle(1).
PoolSize == 1

(***************************************************************************)
(* Small helpers on sequences of bytes.                                    *)
(***************************************************************************)
Min(a, b) == IF a < b THEN a ELSE b

Range(s) == {s[i] : i \in 1..Len(s)}

\* Big-endian encodings written by Stream::write_u16/u32/u64.
BE16(n) == <<(n \div 256) % 256, n % 256>>

BE32(n) == <<(n \div 16777216) % 256, (n \div 65536) % 256, (n \div 256) % 256, n % 256>>

BE64(n) == <<0, 0, 0, 0>> \o BE32(n)

\* Little-endian u64 length prefix written by bincode.
LE64(n) == <<n % 256, (n \div 256) % 256, (n \div 65536) % 256, (n \div 16777216) % 256, 0, 0, 0, 0>>

RECURSIVE FromBE(_)
FromBE(b) == IF Len(b) = 0 THEN 0 ELSE FromBE(SubSeq(b, 1, Len(b) - 1)) * 256 + b[Len(b)]

(***************************************************************************)
(* Typed application values.  A value is [ty, v]: v holds the UTF-8 bytes  *)
(* of a String, the bytes of a Vec<u8>, <<n>> for the integer n and <<b>>  *)
(* (0 or 1) for a bool.                                                    *)
(***************************************************************************)
NoVal == [ty |-> "none", v |-> <<>>]

StrVal(b) == [ty |-> "String", v |-> b]

U64Val(n) == [ty |-> "u64", v |-> <<n>>]

BytesVal(b) == [ty |-> "Vec<u8>", v |-> b]

UsizeVal(n) == [ty |-> "usize", v |-> <<n>>]

BoolVal(b) == [ty |-> "bool", v |-> <<b>>]

\* Display for the integer types: the decimal digits, most significant first.
RECURSIVE Digits(_)
Digits(n) == IF n < 10 THEN <<48 + n>> ELSE Digits(n \div 10) \o <<48 + (n % 10)>>

\* ToString of a string-like value (parse_as_str's t.to_string()).
to_string(val) ==
    CASE val.ty = "String" -> val.v
      [] val.ty = "u64" -> Digits(val.v[1])
      [] val.ty = "bool" -> IF val.v[1] = 1 THEN <<116, 114, 117, 101>> ELSE <<102, 97, 108, 115, 101>>
      [] OTHER -> <<>>

\* The types parse_as_str / can_as_str downcast to (of the model's types:
\* usize and Vec<u8> are not in the list).
StrLikeTypes == {"String", "u64", "bool"}

can_as_str(ty) == ty \in StrLikeTypes

parse_as_str(val) ==
    IF val.ty \in StrLikeTypes THEN [some |-> TRUE, s |-> to_string(val)] ELSE [some |-> FALSE, s |-> <<>>]

\* bincode::serialize of a String or of a byte vector: u64 length, then the bytes.
BincodeSeq(b) == LE64(Len(b)) \o b

\* bincode::serialize of a value parse_as_str does not take for a string: a
\* usize is written as a u64, a byte vector as a sequence.
bincode_serialize(val) == IF val.ty = "usize" THEN LE64(val.v[1]) ELSE BincodeSeq(val.v)

\* A mutant of serialize_bytes: the string branch keeps bincode's length prefix.
serialize_bytes_keep_prefix(val) ==
    LET s == parse_as_str(val) IN IF s.some THEN BincodeSeq(s.s) ELSE bincode_serialize(val)

serialize_bytes(val) ==
    LET s == parse_as_str(val)
    IN IF s.some THEN SubSeq(BincodeSeq(s.s), 9, Len(BincodeSeq(s.s))) ELSE bincode_serialize(val)

\* String::from_utf8 over the model's byte alphabet: ASCII bytes are the
\* valid ones (no multi-byte sequence occurs in the model).
Utf8Valid(b) == \A i \in 1..Len(b) : b[i] < 128

IsDigit(c) == c >= 48 /\ c <= 57

RECURSIVE DecValue(_)
DecValue(b) == IF Len(b) = 0 THEN 0 ELSE DecValue(SubSeq(b, 1, Len(b) - 1)) * 10 + (b[Len(b)] - 48)

\* u64::from_str: an optional '+', then one or more digits, nothing else.
FromStrU64(b) ==
    LET d == IF Len(b) > 0 /\ b[1] = 43 THEN Tail(b) ELSE b
    IN IF Len(d) > 0 /\ Len(d) <= 9 /\ \A i \in 1..Len(d) : IsDigit(d[i])
       THEN [ok |-> TRUE, n |-> DecValue(d)]
       ELSE [ok |-> FALSE, n |-> 0]

\* bool::from_str accepts exactly "true" and "false".
FromStrBool(b) ==
    IF b = <<116, 114, 117, 101>> THEN [ok |-> TRUE, n |-> 1]
    ELSE IF b = <<102, 97, 108, 115, 101>> THEN [ok |-> TRUE, n |-> 0]
    ELSE [ok |-> FALSE, n |-> 0]

DecodeOk(val) == [ok |-> TRUE, err |-> "none", val |-> val]

DecodeErr(e) == [ok |-> FALSE, err |-> e, val |-> NoVal]

\* A mutant of from_memcached_value: the byte-vector branch drops the first byte.
from_memcached_value_drop(ty, bytes) ==
    IF ty = "Vec<u8>" THEN DecodeOk(BytesVal(Tail(bytes)))
    ELSE IF ~Utf8Valid(bytes) THEN DecodeErr("FromUtf8Error")
    ELSE IF ty = "String" THEN DecodeOk(StrVal(bytes))
    ELSE IF FromStrU64(bytes).ok THEN DecodeOk(U64Val(FromStrU64(bytes).n))
    ELSE DecodeErr("ParseIntError")

\* FromMemcachedValue for Vec<u8>, String and the number types.
from_memcached_value(ty, bytes) ==
    IF ty = "Vec<u8>" THEN DecodeOk(BytesVal(bytes))
    ELSE IF ~Utf8Valid(bytes) THEN DecodeErr("FromUtf8Error")
    ELSE IF ty = "String" THEN DecodeOk(StrVal(bytes))
    ELSE IF ty = "u64"
         THEN IF FromStrU64(bytes).ok THEN DecodeOk(U64Val(FromStrU64(bytes).n))
              ELSE DecodeErr("ParseIntError")
    ELSE IF FromStrBool(bytes).ok THEN DecodeOk(BoolVal(FromStrBool(bytes).n))
         ELSE DecodeErr("ParseBoolError")

\* LittleEndian::read_u64 of the first eight bytes (the model's lengths fit
\* the low four).
FromLE(b) == b[1] + b[2] * 256 + b[3] * 65536 + b[4] * 16777216

IsSpace(c) == c = 32 \/ (c >= 9 /\ c <= 13)

\* str::trim: white space is taken off both ends.
RECURSIVE Trim(_)
Trim(b) ==
    IF Len(b) = 0 THEN b
    ELSE IF IsSpace(b[1]) THEN Trim(Tail(b))
    ELSE IF IsSpace(b[Len(b)]) THEN Trim(SubSeq(b, 1, Len(b) - 1))
    ELSE b

\* The types try_parse_number downcasts to (of the model's types: String,
\* bool, usize and Vec<u8> are not in the list).
NumberTypes == {"u64"}

\* bincode::deserialize::<T>: a String or a byte vector is a u64 length and
\* that many bytes, a u64 or usize is eight bytes, a bool is one byte that is
\* 0 or 1; bytes after the value are let be.
bincode_deserialize(ty, bytes) ==
    IF ty = "bool"
    THEN IF Len(bytes) < 1 THEN DecodeErr("Bincode")
         ELSE IF bytes[1] \in {0, 1} THEN DecodeOk(BoolVal(bytes[1]))
         ELSE DecodeErr("Bincode")
    ELSE IF Len(bytes) < 8 THEN DecodeErr("Bincode")
    ELSE IF ty = "u64" THEN DecodeOk(U64Val(FromLE(bytes)))
    ELSE IF ty = "usize" THEN DecodeOk(UsizeVal(FromLE(bytes)))
    ELSE IF Len(bytes) < 8 + FromLE(bytes) THEN DecodeErr("Bincode")
    ELSE IF ty = "Vec<u8>" THEN DecodeOk(BytesVal(SubSeq(bytes, 9, 8 + FromLE(bytes))))
    ELSE IF ~Utf8Valid(SubSeq(bytes, 9, 8 + FromLE(bytes))) THEN DecodeErr("Bincode")
    ELSE DecodeOk(StrVal(SubSeq(bytes, 9, 8 + FromLE(bytes))))

\* s.trim().parse() of the string try_parse_number has read.
ParseNumber(s) ==
    IF ~s.ok THEN s
    ELSE IF FromStrU64(Trim(s.val.v)).ok THEN DecodeOk(U64Val(FromStrU64(Trim(s.val.v)).n))
    ELSE DecodeErr("ParseIntError")

\* parse::try_parse_number: a type of the number list is read as a string
\* and parsed; every other type is read by bincode from the same bytes.
try_parse_number(ty, bytes) ==
    IF ty \in NumberTypes THEN ParseNumber(bincode_deserialize("String", bytes))
    ELSE bincode_deserialize(ty, bytes)

\* parse::deserialize_bytes: for a type can_as_str accepts, the length is
\* put in front of the bytes, as a little-endian u64.
deserialize_bytes(ty, bytes) ==
    IF can_as_str(ty) THEN try_parse_number(ty, LE64(Len(bytes)) \o bytes)
    ELSE bincode_deserialize(ty, bytes)

\* A value handed to the transcoder: what serialize_bytes made of it and
\* what deserialize_bytes made of that.
Coded(stage, val, bytes, out) == [stage |-> stage, val |-> val, bytes |-> bytes, out |-> out]

NoCoded == Coded("none", NoVal, <<>>, DecodeErr("none"))

(***************************************************************************)
(* Keys.  A key is [id, len, hash]: its identity, key.len() in bytes and   *)
(* the value of the client's hash_function on it.                          *)
(***************************************************************************)
KA == [id |-> 1, len |-> MaxKeyLen, hash |-> 2]

KB == [id |-> 2, len |-> 1, hash |-> 3]

KC == [id |-> 3, len |-> 2, hash |-> 4]

KL == [id |-> 4, len |-> MaxKeyLen + 1, hash |-> 5]

NoKey == [id |-> 0, len |-> 0, hash |-> 0]

\* The key of the one statistic the model's server reports.
StatKey == [id |-> 9, len |-> 3, hash |-> 0]

Keys == {KA, KB, KC, KL}

KeyIds == {k.id : k \in Keys}

(***************************************************************************)
(* Construction of the client (client/mod.rs, connection.rs).              *)
(***************************************************************************)
\* Url::parse: what the url crate makes of a string.  A string without a
\* scheme is no URL.
Url(text, username, has_password) ==
    [text |-> text, has_authority |-> TRUE, username |-> username, has_password |-> has_password]

NoUrl == [text |-> "", has_authority |-> FALSE, username |-> "", has_password |-> FALSE]

Url_parse(text) ==
    CASE text = "memcache://s0" -> [ok |-> TRUE, url |-> Url(text, "", FALSE)]
      [] text = "memcache://user:pw@s1" -> [ok |-> TRUE, url |-> Url(text, "user", TRUE)]
      [] OTHER -> [ok |-> FALSE, url |-> NoUrl]

\* The strings a client is built from: two servers, the second with
\* credentials, and a string that is no URL.
UrlTexts == {"memcache://s0", "memcache://user:pw@s1", ""}

MaxUrls == 2

UrlLists == UNION {[1..n -> UrlTexts] : n \in 0..MaxUrls}

\* The hash functions a client is built with, by name.
HashFunctions == {"default_hash_function", "hash_function"}

\* A Client: its pools (by the URL of their ConnectionManager) and its hash
\* function; made tells whether construction has run and how it ended, urls
\* remembers what it was given.
ClientOf(made, err, urls, conns, pool_size, hash) ==
    [made |-> made, err |-> err, urls |-> urls, connections |-> conns,
     pool_size |-> pool_size, hash_function |-> hash]

NoClient == ClientOf("no", "none", <<>>, <<>>, 0, "none")

\* A mutant of connects_with: no look at the number of pools.
connects_with_unchecked(urls, pool_size, hash) ==
    IF \E i \in 1..Len(urls) : ~Url_parse(urls[i]).ok
    THEN ClientOf("err", "UrlParse", urls, <<>>, 0, "none")
    ELSE ClientOf("ok", "none", urls, [i \in 1..Len(urls) |-> Url_parse(urls[i]).url],
                  pool_size, hash)

\* Client::connects_with: every URL is parsed, the first that does not parse
\* ends construction; then the list of pools must not be empty.
connects_with(urls, pool_size, hash) ==
    IF \E i \in 1..Len(urls) : ~Url_parse(urls[i]).ok
    THEN ClientOf("err", "UrlParse", urls, <<>>, 0, "none")
    ELSE IF Len(urls) = 0
    THEN ClientOf("err", "ConnectionsIsEmpty", urls, <<>>, 0, "none")
    ELSE ClientOf("ok", "none", urls, [i \in 1..Len(urls) |-> Url_parse(urls[i]).url],
                  pool_size, hash)

\* The client the operations are modelled for.
TheClient == connects_with(<<"memcache://s0", "memcache://user:pw@s1">>, PoolSize, "hash_function")

\* The URL list the client was built from, one pool per URL.
connections == TheClient.connections

connections_count == Len(connections)

Shards == 0..(connections_count - 1)

hash_function(key) == key.hash

(***************************************************************************)
(* Requests (protocol/mod.rs).  A request is the PacketHeader a verb       *)
(* builds, the fields it does not name left at their default, and what the *)
(* verb writes after the header: written lists the parts in the order of   *)
(* the write calls, extras, key and value hold their bytes.  origin is not *)
(* on the wire: it remembers the typed value a store request was           *)
(* serialized from.                                                        *)
(***************************************************************************)
PacketHeader(opcode, key_length, extras_length, total_body_length, cas) ==
    [magic |-> MagicRequest, opcode |-> opcode, key_length |-> key_length,
     extras_length |-> extras_length, total_body_length |-> total_body_length, cas |-> cas]

Request(header, written, extras, key, value, origin) ==
    [magic |-> header.magic, opcode |-> header.opcode, key_length |-> header.key_length,
     extras_length |-> header.extras_length,
     total_body_length |-> header.total_body_length,
     cas |-> header.cas, written |-> written,
     extras |-> extras, key |-> key, value |-> value, origin |-> origin]

\* BinaryProtocol::send_request: header, flags, expiration, key, value.
send_request(opcode, key, value, expiration, cas, origin) ==
    Request(PacketHeader(opcode, key.len, 8, 8 + key.len + Len(value), cas),
            <<"extras", "key", "value">>,
            BE32(FlagsBytes) \o BE32(expiration), key, value, origin)

\* BinaryProtocol::store / ::cas: the value goes through serialize_bytes.
store_request(opcode, key, val, expiration, cas) ==
    send_request(opcode, key, serialize_bytes(val), expiration, cas, val)

get_request(key) ==
    Request(PacketHeader(OpGet, key.len, 0, key.len, 0), <<"key">>, <<>>, key, <<>>, NoVal)

getkq_request(key) ==
    Request(PacketHeader(OpGetKQ, key.len, 0, key.len, 0), <<"key">>, <<>>, key, <<>>, NoVal)

noop_request == Request(PacketHeader(OpNoop, 0, 0, 0, 0), <<>>, <<>>, NoKey, <<>>, NoVal)

append_request(opcode, key, val) ==
    Request(PacketHeader(opcode, key.len, 0, key.len + Len(serialize_bytes(val)), 0),
            <<"key", "value">>, <<>>, key, serialize_bytes(val), NoVal)

delete_request(key) ==
    Request(PacketHeader(OpDelete, key.len, 0, key.len, 0), <<"key">>, <<>>, key, <<>>, NoVal)

\* A mutant of the counter request: the amount is written where the initial
\* value belongs.
counter_request_swapped(opcode, key, amount) ==
    Request(PacketHeader(opcode, key.len, 20, 20 + key.len, 0), <<"extras", "key">>,
            BE64(0) \o BE64(amount) \o BE32(0), key, <<>>, NoVal)

\* CounterExtras: amount, initial_value 0, expiration 0.
counter_request(opcode, key, amount) ==
    Request(PacketHeader(opcode, key.len, 20, 20 + key.len, 0), <<"extras", "key">>,
            BE64(amount) \o BE64(0) \o BE32(0), key, <<>>, NoVal)

\* A mutant of the touch request: the header counts the key only.
touch_request_short(key, expiration) ==
    Request(PacketHeader(OpTouch, key.len, 4, key.len, 0), <<"extras", "key">>,
            BE32(expiration), key, <<>>, NoVal)

touch_request(key, expiration) ==
    Request(PacketHeader(OpTouch, key.len, 4, key.len + 4, 0), <<"extras", "key">>,
            BE32(expiration), key, <<>>, NoVal)

flush_request == Request(PacketHeader(OpFlush, 0, 0, 0, 0), <<>>, <<>>, NoKey, <<>>, NoVal)

flush_with_delay_request(delay) ==
    Request(PacketHeader(OpFlush, 0, 4, 4, 0), <<"extras">>, BE32(delay), NoKey, <<>>, NoVal)

version_request == Request(PacketHeader(OpVersion, 0, 0, 0, 0), <<>>, <<>>, NoKey, <<>>, NoVal)

stats_request == Request(PacketHeader(OpStat, 0, 0, 0, 0), <<>>, <<>>, NoKey, <<>>, NoVal)

\* PacketHeader::write: the 24 bytes of a request header in wire order
\* (data_type, vbucket id and opaque are left at 0).
PacketHeader_write(r) ==
    <<r.magic, r.opcode>> \o BE16(r.key_length) \o <<r.extras_length, 0>> \o BE16(0)
    \o BE32(r.total_body_length) \o BE32(0) \o BE64(r.cas)

\* The number of bytes a request puts on the wire: the header, then the
\* parts the verb writes.
PartLen(r, part) ==
    CASE part = "extras" -> Len(r.extras)
      [] part = "key" -> r.key.len
      [] OTHER -> Len(r.value)

RECURSIVE BodyLen(_, _)
BodyLen(r, parts) ==
    IF parts = <<>> THEN 0 ELSE PartLen(r, Head(parts)) + BodyLen(r, Tail(parts))

BytesWritten(r) == Len(PacketHeader_write(r)) + BodyLen(r, r.written)

\* self.stream.flush().await? between the last write of a verb and its
\* parser: every verb has it but BinaryProtocol::gets, which goes from the
\* write of the Noop header to parse_gets_response.  The stream is a
\* TcpStream without a buffer of its own: what is written goes to the peer
\* with or without the flush.
flush(c) == c.op # "gets"

\* A mutant of gets_requests: the keys are written last to first.
gets_requests_reversed(keys) ==
    [i \in 1..Len(keys) |-> getkq_request(keys[Len(keys) + 1 - i])] \o <<noop_request>>

\* BinaryProtocol::gets: one GetKQ per key in list order, then one Noop.
gets_requests(keys) == [i \in 1..Len(keys) |-> getkq_request(keys[i])] \o <<noop_request>>

(***************************************************************************)
(* The memcached server (environment).  One store per shard: an item per   *)
(* key id, and the counter the cas tokens are drawn from.  Expiry by time  *)
(* is not modelled: the expiration travels on the wire and is ignored.     *)
(***************************************************************************)
NoItem == [present |-> FALSE, value |-> <<>>, flags |-> 0, cas |-> 0, origin |-> NoVal]

Item(value, flags, cas, origin) ==
    [present |-> TRUE, value |-> value, flags |-> flags, cas |-> cas, origin |-> origin]

EmptyStore == [i \in KeyIds |-> NoItem]

Response(op, status, key, extras, value, cas) ==
    [magic |-> MagicResponse, opcode |-> op, status |-> status, key_length |-> key.len,
     extras_length |-> Len(extras),
     total_body_length |-> Len(extras) + key.len + Len(value),
     cas |-> cas, extras |-> extras, key |-> key, value |-> value]

StatusOnly(op, status, cas) == Response(op, status, NoKey, <<>>, <<>>, cas)

\* What the server did with one request: its store and counter afterwards,
\* whether a delayed flush is now pending, and the responses it wrote.
Handled(st, ctr, pending, resps) == [st |-> st, ctr |-> ctr, pending |-> pending, resps |-> resps]

RECURSIVE StripSpaces(_)
StripSpaces(b) == IF Len(b) > 0 /\ b[Len(b)] = 32 THEN StripSpaces(SubSeq(b, 1, Len(b) - 1)) ELSE b

\* The number an item holds, for incr/decr: decimal digits, then padding.
ServerNumber(b) ==
    LET d == StripSpaces(b)
    IN IF Len(d) > 0 /\ Len(d) <= 9 /\ \A i \in 1..Len(d) : IsDigit(d[i])
       THEN [ok |-> TRUE, n |-> DecValue(d)]
       ELSE [ok |-> FALSE, n |-> 0]

\* A counter is rewritten in place, padded with spaces, when it got shorter.
PadTo(b, n) == b \o [i \in 1..(IF n > Len(b) THEN n - Len(b) ELSE 0) |-> 32]

ServerStore(st, ctr, r) ==
    LET it == st[r.key.id]
        flags == FromBE(SubSeq(r.extras, 1, 4))
        refuse(status) == Handled(st, ctr, FALSE, <<StatusOnly(r.opcode, status, 0)>>)
    IN IF r.opcode = OpAdd /\ it.present THEN refuse(StKeyExists)
       ELSE IF r.opcode = OpReplace /\ ~it.present THEN refuse(StKeyNotFound)
       ELSE IF r.cas # 0 /\ ~it.present THEN refuse(StKeyNotFound)
       ELSE IF r.cas # 0 /\ it.cas # r.cas THEN refuse(StKeyExists)
       ELSE Handled([st EXCEPT ![r.key.id] = Item(r.value, flags, ctr + 1, r.origin)],
                    ctr + 1, FALSE, <<StatusOnly(r.opcode, OK_STATUS, ctr + 1)>>)

ServerConcat(st, ctr, r) ==
    LET it == st[r.key.id]
        joined == IF r.opcode = OpAppend THEN it.value \o r.value ELSE r.value \o it.value
    IN IF ~it.present
       THEN Handled(st, ctr, FALSE, <<StatusOnly(r.opcode, StNotStored, 0)>>)
       ELSE Handled([st EXCEPT ![r.key.id] = Item(joined, it.flags, ctr + 1, NoVal)],
                    ctr + 1, FALSE, <<StatusOnly(r.opcode, OK_STATUS, ctr + 1)>>)

ServerCounter(st, ctr, r) ==
    LET it == st[r.key.id]
        amount == FromBE(SubSeq(r.extras, 1, 8))
        initial == FromBE(SubSeq(r.extras, 9, 16))
        old == ServerNumber(it.value)
        new == IF r.opcode = OpIncrement THEN old.n + amount
               ELSE IF amount > old.n THEN 0 ELSE old.n - amount
        answer(n, text) ==
            Handled([st EXCEPT ![r.key.id] = Item(text, it.flags, ctr + 1, NoVal)], ctr + 1, FALSE,
                    <<Response(r.opcode, OK_STATUS, NoKey, <<>>, BE64(n), ctr + 1)>>)
    IN IF ~it.present THEN answer(initial, Digits(initial))
       ELSE IF ~old.ok THEN Handled(st, ctr, FALSE, <<StatusOnly(r.opcode, StNonNumeric, 0)>>)
       ELSE answer(new, PadTo(Digits(new), Len(it.value)))

ServerHandle(st, ctr, r) ==
    LET it == st[r.key.id]
        miss == Handled(st, ctr, FALSE, <<StatusOnly(r.opcode, StKeyNotFound, 0)>>)
        ok == Handled(st, ctr, FALSE, <<StatusOnly(r.opcode, OK_STATUS, 0)>>)
    IN CASE r.opcode = OpGet ->
              IF it.present
              THEN Handled(st, ctr, FALSE,
                           <<Response(OpGet, OK_STATUS, NoKey, BE32(it.flags), it.value, it.cas)>>)
              ELSE miss
         [] r.opcode = OpGetKQ ->
              IF it.present
              THEN Handled(st, ctr, FALSE,
                           <<Response(OpGetKQ, OK_STATUS, r.key, BE32(it.flags), it.value, it.cas)>>)
              ELSE Handled(st, ctr, FALSE, <<>>)
         [] r.opcode \in {OpSet, OpAdd, OpReplace} -> ServerStore(st, ctr, r)
         [] r.opcode \in {OpAppend, OpPrepend} -> ServerConcat(st, ctr, r)
         [] r.opcode \in {OpIncrement, OpDecrement} -> ServerCounter(st, ctr, r)
         [] r.opcode = OpDelete ->
              IF it.present
              THEN Handled([st EXCEPT ![r.key.id] = NoItem], ctr, FALSE,
                           <<StatusOnly(OpDelete, OK_STATUS, 0)>>)
              ELSE miss
         [] r.opcode = OpTouch -> IF it.present THEN ok ELSE miss
         [] r.opcode = OpFlush ->
              IF Len(r.extras) = 4 /\ FromBE(r.extras) > 0
              THEN Handled(st, ctr, TRUE, <<StatusOnly(OpFlush, OK_STATUS, 0)>>)
              ELSE Handled(EmptyStore, ctr, FALSE, <<StatusOnly(OpFlush, OK_STATUS, 0)>>)
         [] r.opcode = OpVersion ->
              Handled(st, ctr, FALSE, <<Response(OpVersion, OK_STATUS, NoKey, <<>>, <<49, 46, 54>>, 0)>>)
         [] r.opcode = OpStat ->
              Handled(st, ctr, FALSE,
                      <<Response(OpStat, OK_STATUS, StatKey, <<>>, <<49>>, 0),
                        Response(OpStat, OK_STATUS, NoKey, <<>>, <<>>, 0)>>)
         [] OTHER -> ok

\* The server reads the requests of one write in order.
RECURSIVE ServerRun(_, _, _, _)
ServerRun(st, ctr, pending, reqs) ==
    IF Len(reqs) = 0 THEN Handled(st, ctr, pending, <<>>)
    ELSE LET h == ServerHandle(st, ctr, Head(reqs))
             t == ServerRun(h.st, h.ctr, pending \/ h.pending, Tail(reqs))
         IN Handled(t.st, t.ctr, t.pending, h.resps \o t.resps)

(***************************************************************************)
(* Results of client operations: Result<T> for the T of each verb.         *)
(***************************************************************************)
Result(kind, tag, val, num, flag, map, list, err) ==
    [kind |-> kind, tag |-> tag, val |-> val, num |-> num, flag |-> flag,
     map |-> map, list |-> list, err |-> err]

NoResult == Result("none", "none", NoVal, 0, FALSE, {}, <<>>, "none")

OkUnit == Result("ok", "unit", NoVal, 0, FALSE, {}, <<>>, "none")

OkBool(b) == Result("ok", "bool", NoVal, 0, b, {}, <<>>, "none")

OkSome(v) == Result("ok", "some", v, 0, FALSE, {}, <<>>, "none")

OkNone == Result("ok", "nothing", NoVal, 0, FALSE, {}, <<>>, "none")

OkNum(n) == Result("ok", "u64", NoVal, n, FALSE, {}, <<>>, "none")

OkStr(b) == Result("ok", "string", StrVal(b), 0, FALSE, {}, <<>>, "none")

OkMap(m) == Result("ok", "map", NoVal, 0, FALSE, m, <<>>, "none")

OkList(l) == Result("ok", "list", NoVal, 0, FALSE, {}, l, "none")

\* Err(e): e names the error; a CommandError::Unknown carries its code in num.
Err(e) == Result("err", "err", NoVal, 0, FALSE, {}, <<>>, e)

ErrUnknown(code) == Result("err", "err", NoVal, code, FALSE, {}, <<>>, "Unknown")

\* ServerError::BadMagic carries the byte that was read.
ErrBadMagic(magic) == Result("err", "err", NoVal, magic, FALSE, {}, <<>>, "BadMagic")

\* The subtraction total_body_length - key_length - extras_length of
\* parse_response fell below 0 on u32: what follows depends on the build.
Underflow == Result("underflow", "underflow", NoVal, 0, FALSE, {}, <<>>, "none")

\* The read never returns: the bytes it waits for are never written.
Blocked == Result("blocked", "blocked", NoVal, 0, FALSE, {}, <<>>, "none")

(***************************************************************************)
(* Packet codec (protocol/binary_packet.rs).                               *)
(***************************************************************************)
NewStream == [buf |-> <<>>, off |-> 0, eof |-> FALSE]

\* A mutant of CommandError::from: status 0x2 is read as KeyNotFound.
CommandError_from_swapped(status) ==
    CASE status = 1 -> Err("KeyNotFound")
      [] status = 2 -> Err("KeyNotFound")
      [] OTHER -> ErrUnknown(status)

\* A mutant of CommandError::from: a code the table does not name loses its
\* value.
CommandError_from_collapsed(status) ==
    CASE status = 1 -> Err("KeyNotFound")
      [] status = 2 -> Err("KeyExists")
      [] status = 3 -> Err("ValueTooLarge")
      [] status = 4 -> Err("InvalidArguments")
      [] status = 6 -> Err("IncrOrDecrOnNonNumericValue")
      [] status = 32 -> Err("AuthenticationRequired")
      [] OTHER -> ErrUnknown(0)

\* impl From<u16> for CommandError.
CommandError_from(status) ==
    CASE status = 1 -> Err("KeyNotFound")
      [] status = 2 -> Err("KeyExists")
      [] status = 3 -> Err("ValueTooLarge")
      [] status = 4 -> Err("InvalidArguments")
      [] status = 6 -> Err("IncrOrDecrOnNonNumericValue")
      [] status = 32 -> Err("AuthenticationRequired")
      [] OTHER -> ErrUnknown(status)

\* The 24 bytes of a response header in wire order.
HeaderBytes(r) ==
    <<r.magic, r.opcode>> \o BE16(r.key_length) \o <<r.extras_length, 0>> \o BE16(r.status)
    \o BE32(r.total_body_length) \o BE32(0) \o BE64(r.cas)

\* A parse step: the response read (if any), the error (if any) and the
\* stream afterwards.
Parsed(ok, err, resp, stream) == [ok |-> ok, err |-> err, resp |-> resp, stream |-> stream]

NoResponse == Response(0, 0, NoKey, <<>>, <<>>, 0)

\* A mutant of PacketHeader::read: the 24 bytes are read before the magic is
\* looked at.
PacketHeader_read_whole(stream) ==
    IF Len(stream.buf) = 0
    THEN IF stream.eof THEN Parsed(FALSE, Err("IOError"), NoResponse, stream)
         ELSE Parsed(FALSE, Blocked, NoResponse, stream)
    ELSE LET magic == IF stream.off < 24 THEN HeaderBytes(Head(stream.buf))[stream.off + 1] ELSE 0
         IN IF magic # MagicResponse
            THEN Parsed(FALSE, ErrBadMagic(magic), NoResponse, [stream EXCEPT !.off = stream.off + 24])
            ELSE IF stream.off # 0
            THEN Parsed(FALSE, Err("Misaligned"), NoResponse, [stream EXCEPT !.off = stream.off + 1])
            ELSE Parsed(TRUE, NoResult, Head(stream.buf), [stream EXCEPT !.off = 24])

\* PacketHeader::read: one byte, the magic; the other 23 only if it is 0x81.
PacketHeader_read(stream) ==
    IF Len(stream.buf) = 0
    THEN IF stream.eof THEN Parsed(FALSE, Err("IOError"), NoResponse, stream)
         ELSE Parsed(FALSE, Blocked, NoResponse, stream)
    ELSE LET magic == IF stream.off < 24 THEN HeaderBytes(Head(stream.buf))[stream.off + 1] ELSE 0
         IN IF magic # MagicResponse
            THEN Parsed(FALSE, ErrBadMagic(magic), NoResponse, [stream EXCEPT !.off = stream.off + 1])
            ELSE IF stream.off # 0
            THEN Parsed(FALSE, Err("Misaligned"), NoResponse, [stream EXCEPT !.off = stream.off + 1])
            ELSE Parsed(TRUE, NoResult, Head(stream.buf), [stream EXCEPT !.off = 24])

\* A mutant of parse_response: the response is returned and stays on the stream.
parse_response_unread(stream) ==
    LET h == PacketHeader_read(stream)
    IN IF ~h.ok THEN h ELSE Parsed(TRUE, NoResult, h.resp, stream)

\* parse_response: the header, then extras, key and value.  The length of
\* the value is computed without a check (the TODO of the source): for a
\* header whose total_body_length is less than key_length + extras_length
\* the extras and the key have been read and the subtraction underflows.
read_body(h, stream) ==
    IF ~h.ok THEN h
    ELSE IF h.resp.total_body_length < h.resp.key_length + h.resp.extras_length
    THEN Parsed(FALSE, Underflow, h.resp,
                [stream EXCEPT !.off = 24 + h.resp.extras_length + h.resp.key_length])
    ELSE Parsed(TRUE, NoResult, h.resp, [stream EXCEPT !.buf = Tail(stream.buf), !.off = 0])

parse_response(stream) == read_body(PacketHeader_read(stream), stream)

\* Response::err.
Response_err(resp) ==
    IF resp.status = OK_STATUS THEN NoResult ELSE CommandError_from(resp.status)

\* What a verb's parser returns: the verb's result and the stream afterwards.
Outcome(res, stream) == [res |-> res, stream |-> stream]

\* Cursor::new(extras).read_u32::<BigEndian>().
ReadFlags(extras) ==
    IF Len(extras) < 4 THEN [ok |-> FALSE, n |-> 0] ELSE [ok |-> TRUE, n |-> FromBE(SubSeq(extras, 1, 4))]

\* parse_response(reader).await?.err()?, then nothing of the response is used.
parse_status_response(stream) ==
    LET p == parse_response(stream)
    IN IF ~p.ok THEN Outcome(p.err, p.stream)
       ELSE IF Response_err(p.resp).kind = "err" THEN Outcome(Response_err(p.resp), p.stream)
       ELSE Outcome(OkUnit, p.stream)

\* BinaryProtocol::prepend reads the response and maps it to () without .err().
parse_unchecked_response(stream) ==
    LET p == parse_response(stream)
    IN IF ~p.ok THEN Outcome(p.err, p.stream) ELSE Outcome(OkUnit, p.stream)

\* A mutant of parse_cas_response: every non-OK status is turned into false.
parse_cas_response_any(stream) ==
    LET p == parse_response(stream)
        e == Response_err(p.resp)
    IN IF ~p.ok THEN Outcome(p.err, p.stream)
       ELSE IF e.kind = "err" THEN Outcome(OkBool(FALSE), p.stream)
       ELSE Outcome(OkBool(TRUE), p.stream)

parse_cas_response(stream) ==
    LET p == parse_response(stream)
        e == Response_err(p.resp)
    IN IF ~p.ok THEN Outcome(p.err, p.stream)
       ELSE IF e.kind = "err" /\ e.err \in {"KeyNotFound", "KeyExists"} THEN Outcome(OkBool(FALSE), p.stream)
       ELSE IF e.kind = "err" THEN Outcome(e, p.stream)
       ELSE Outcome(OkBool(TRUE), p.stream)

parse_version_response(stream) ==
    LET p == parse_response(stream)
        e == Response_err(p.resp)
    IN IF ~p.ok THEN Outcome(p.err, p.stream)
       ELSE IF e.kind = "err" THEN Outcome(e, p.stream)
       ELSE IF ~Utf8Valid(p.resp.value) THEN Outcome(Err("FromUtf8Error"), p.stream)
       ELSE Outcome(OkStr(p.resp.value), p.stream)

\* A mutant of parse_get_response: KeyNotFound is passed on as an error.
parse_get_response_strict(ty, stream) ==
    LET p == parse_response(stream)
        e == Response_err(p.resp)
        d == from_memcached_value(ty, p.resp.value)
    IN IF ~p.ok THEN Outcome(p.err, p.stream)
       ELSE IF e.kind = "err" THEN Outcome(e, p.stream)
       ELSE IF ~ReadFlags(p.resp.extras).ok THEN Outcome(Err("IOError"), p.stream)
       ELSE IF ~d.ok THEN Outcome(Err(d.err), p.stream)
       ELSE Outcome(OkSome(d.val), p.stream)

\* A mutant of parse_get_response: a value that does not decode is left on
\* the stream.
parse_get_response_peek(ty, stream) ==
    LET p == parse_response(stream)
        e == Response_err(p.resp)
        d == from_memcached_value(ty, p.resp.value)
    IN IF ~p.ok THEN Outcome(p.err, p.stream)
       ELSE IF e.kind = "err" /\ e.err = "KeyNotFound" THEN Outcome(OkNone, p.stream)
       ELSE IF e.kind = "err" THEN Outcome(e, p.stream)
       ELSE IF ~ReadFlags(p.resp.extras).ok THEN Outcome(Err("IOError"), p.stream)
       ELSE IF ~d.ok THEN Outcome(Err(d.err), stream)
       ELSE Outcome(OkSome(d.val), p.stream)

parse_get_response(ty, stream) ==
    LET p == parse_response(stream)
        e == Response_err(p.resp)
        d == from_memcached_value(ty, p.resp.value)
    IN IF ~p.ok THEN Outcome(p.err, p.stream)
       ELSE IF e.kind = "err" /\ e.err = "KeyNotFound" THEN Outcome(OkNone, p.stream)
       ELSE IF e.kind = "err" THEN Outcome(e, p.stream)
       ELSE IF ~ReadFlags(p.resp.extras).ok THEN Outcome(Err("IOError"), p.stream)
       ELSE IF ~d.ok THEN Outcome(Err(d.err), p.stream)
       ELSE Outcome(OkSome(d.val), p.stream)

\* One entry of the map gets returns: key -> (value, flags, cas).
Entry(key, value, flags, cas) == [key |-> key, value |-> value, flags |-> flags, cas |-> cas]

\* HashMap::insert: an entry of the same key is replaced.
Insert(map, e) == {x \in map : x.key # e.key} \cup {e}

\* A mutant of HashMap::extend: the map is replaced by the new entries.
Extend_replace(map, more) == more

\* HashMap::extend.
Extend(map, more) == {x \in map : \A e \in more : e.key # x.key} \cup more

\* A mutant of the loop of parse_gets_response: at the bound it returns the
\* entries read so far.
RECURSIVE parse_gets_loop_truncating(_, _, _)
parse_gets_loop_truncating(stream, left, result) ==
    IF left = 0 THEN Outcome(OkMap(result), stream)
    ELSE LET p == parse_response(stream)
             e == Response_err(p.resp)
             f == ReadFlags(p.resp.extras)
         IN IF ~p.ok THEN Outcome(p.err, p.stream)
            ELSE IF e.kind = "err" THEN Outcome(e, p.stream)
            ELSE IF p.resp.opcode = OpNoop THEN Outcome(OkMap(result), p.stream)
            ELSE IF ~f.ok THEN Outcome(Err("IOError"), p.stream)
            ELSE parse_gets_loop_truncating(p.stream, left - 1,
                                            Insert(result, Entry(p.resp.key, p.resp.value, f.n, p.resp.cas)))

\* A mutant of the loop of parse_gets_response: after a Noop it goes on
\* reading when more has arrived.
RECURSIVE parse_gets_loop_greedy(_, _, _)
parse_gets_loop_greedy(stream, left, result) ==
    IF left = 0 THEN Outcome(Err("BadResponse"), stream)
    ELSE LET p == parse_response(stream)
             e == Response_err(p.resp)
             f == ReadFlags(p.resp.extras)
         IN IF ~p.ok THEN Outcome(p.err, p.stream)
            ELSE IF e.kind = "err" THEN Outcome(e, p.stream)
            ELSE IF p.resp.opcode = OpNoop /\ Len(p.stream.buf) = 0 THEN Outcome(OkMap(result), p.stream)
            ELSE IF p.resp.opcode = OpNoop THEN parse_gets_loop_greedy(p.stream, left - 1, result)
            ELSE IF ~f.ok THEN Outcome(Err("IOError"), p.stream)
            ELSE parse_gets_loop_greedy(p.stream, left - 1,
                                        Insert(result, Entry(p.resp.key, p.resp.value, f.n, p.resp.cas)))

\* parse_gets_response: `left` more responses may be read (max_responses + 1
\* at the start); a Noop response ends the read.
RECURSIVE parse_gets_loop(_, _, _)
parse_gets_loop(stream, left, result) ==
    IF left = 0 THEN Outcome(Err("BadResponse"), stream)
    ELSE LET p == parse_response(stream)
             e == Response_err(p.resp)
             f == ReadFlags(p.resp.extras)
         IN IF ~p.ok THEN Outcome(p.err, p.stream)
            ELSE IF e.kind = "err" THEN Outcome(e, p.stream)
            ELSE IF p.resp.opcode = OpNoop THEN Outcome(OkMap(result), p.stream)
            ELSE IF ~f.ok THEN Outcome(Err("IOError"), p.stream)
            ELSE parse_gets_loop(p.stream, left - 1,
                                 Insert(result, Entry(p.resp.key, p.resp.value, f.n, p.resp.cas)))

\* A mutant of parse_gets_response: the loop runs max_responses times, with
\* no turn left for the Noop response after max_responses hits.
parse_gets_response_tight(stream, max_responses) == parse_gets_loop(stream, max_responses, {})

parse_gets_response(stream, max_responses) == parse_gets_loop(stream, max_responses + 1, {})

\* A mutant of parse_delete_response: KeyNotFound is passed on as an error.
parse_delete_response_strict(stream) ==
    LET p == parse_response(stream)
        e == Response_err(p.resp)
    IN IF ~p.ok THEN Outcome(p.err, p.stream)
       ELSE IF e.kind = "err" THEN Outcome(e, p.stream)
       ELSE Outcome(OkBool(TRUE), p.stream)

parse_delete_response(stream) ==
    LET p == parse_response(stream)
        e == Response_err(p.resp)
    IN IF ~p.ok THEN Outcome(p.err, p.stream)
       ELSE IF e.kind = "err" /\ e.err = "KeyNotFound" THEN Outcome(OkBool(FALSE), p.stream)
       ELSE IF e.kind = "err" THEN Outcome(e, p.stream)
       ELSE Outcome(OkBool(TRUE), p.stream)

parse_touch_response(stream) == parse_delete_response(stream)

\* A mutant of parse_counter_response: the counter is read as a u32.
parse_counter_response_u32(stream) ==
    LET p == parse_response(stream)
        e == Response_err(p.resp)
    IN IF ~p.ok THEN Outcome(p.err, p.stream)
       ELSE IF e.kind = "err" THEN Outcome(e, p.stream)
       ELSE IF Len(p.resp.value) < 4 THEN Outcome(Err("IOError"), p.stream)
       ELSE Outcome(OkNum(FromBE(SubSeq(p.resp.value, 1, 4))), p.stream)

parse_counter_response(stream) ==
    LET p == parse_response(stream)
        e == Response_err(p.resp)
    IN IF ~p.ok THEN Outcome(p.err, p.stream)
       ELSE IF e.kind = "err" THEN Outcome(e, p.stream)
       ELSE IF Len(p.resp.value) < 8 THEN Outcome(Err("IOError"), p.stream)
       ELSE Outcome(OkNum(FromBE(SubSeq(p.resp.value, 1, 8))), p.stream)

\* parse_stats_response: pairs until the one with an empty key and value.
RECURSIVE parse_stats_loop(_, _)
parse_stats_loop(stream, result) ==
    LET p == parse_response(stream)
        e == Response_err(p.resp)
    IN IF ~p.ok THEN Outcome(p.err, p.stream)
       ELSE IF e.kind = "err" THEN Outcome(e, p.stream)
       ELSE IF ~Utf8Valid(p.resp.value) THEN Outcome(Err("FromUtf8Error"), p.stream)
       ELSE IF p.resp.key.len = 0 /\ Len(p.resp.value) = 0 THEN Outcome(OkMap(result), p.stream)
       ELSE parse_stats_loop(p.stream, Insert(result, Entry(p.resp.key, p.resp.value, 0, 0)))

parse_stats_response(stream) == parse_stats_loop(stream, {})

(***************************************************************************)
(* The packet codec on bytes.  The stream is the bytes the peer has        *)
(* written and the number of them that have been read.                     *)
(***************************************************************************)
\* The bytes of a key: key.len bytes that tell the key.
KeyBytes(key) == [i \in 1..key.len |-> 96 + key.id]

\* A response packet as the server writes it: header, extras, key, value.
Packet(r) == HeaderBytes(r) \o r.extras \o KeyBytes(r.key) \o r.value

RECURSIVE Packets(_)
Packets(rs) == IF rs = <<>> THEN <<>> ELSE Packet(Head(rs)) \o Packets(Tail(rs))

ByteStream(bytes) == [bytes |-> bytes, pos |-> 0]

\* Stream::read_exact: the next n bytes, or a failure when the stream ends
\* before them.
Stream_read_exact(s, n) ==
    IF s.pos + n <= Len(s.bytes)
    THEN [ok |-> TRUE, data |-> SubSeq(s.bytes, s.pos + 1, s.pos + n), s |-> [s EXCEPT !.pos = s.pos + n]]
    ELSE [ok |-> FALSE, data |-> <<>>, s |-> [s EXCEPT !.pos = Len(s.bytes)]]

\* What parse_response returns on bytes: the header fields and the three
\* byte vectors, or an error, and the stream afterwards.
WireResponse(ok, err, header, extras, key, value, s) ==
    [ok |-> ok, err |-> err, header |-> header, extras |-> extras, key |-> key, value |-> value, s |-> s]

NoHeader ==
    [magic |-> 0, opcode |-> 0, key_length |-> 0, extras_length |-> 0, data_type |-> 0,
     vbucket_id_or_status |-> 0, total_body_length |-> 0, opaque |-> 0, cas |-> 0]

WireError(err, s) == WireResponse(FALSE, err, NoHeader, <<>>, <<>>, <<>>, s)

\* The fields of a header after the magic, from the 23 bytes read.
HeaderOf(magic, b) ==
    [magic |-> magic, opcode |-> b[1], key_length |-> FromBE(SubSeq(b, 2, 3)),
     extras_length |-> b[4], data_type |-> b[5], vbucket_id_or_status |-> FromBE(SubSeq(b, 6, 7)),
     total_body_length |-> FromBE(SubSeq(b, 8, 11)), opaque |-> FromBE(SubSeq(b, 12, 15)),
     cas |-> FromBE(SubSeq(b, 16, 23))]

\* PacketHeader::read on bytes.
HeaderRest(magic, rest) ==
    IF ~rest.ok THEN WireError("IOError", rest.s)
    ELSE WireResponse(TRUE, "none", HeaderOf(magic, rest.data), <<>>, <<>>, <<>>, rest.s)

HeaderMagic(m) ==
    IF ~m.ok THEN WireError("IOError", m.s)
    ELSE IF m.data[1] # MagicResponse THEN WireError("BadMagic", m.s)
    ELSE HeaderRest(m.data[1], Stream_read_exact(m.s, 23))

PacketHeader_read_bytes(s) == HeaderMagic(Stream_read_exact(s, 1))

\* A mutant of parse_response on bytes: the length of the value is taken to
\* be the total body length less the key.
BodyValue_unreduced(h, extras, key) ==
    IF ~key.ok THEN WireError("IOError", key.s)
    ELSE IF h.total_body_length < h.key_length + h.extras_length THEN WireError("underflow", key.s)
    ELSE LET value == Stream_read_exact(key.s, h.total_body_length - h.key_length)
         IN IF ~value.ok THEN WireError("IOError", value.s)
            ELSE WireResponse(TRUE, "none", h, extras.data, key.data, value.data, value.s)

\* parse_response on bytes: extras_length bytes, key_length bytes, then
\* total_body_length - key_length - extras_length bytes.
BodyValue(h, extras, key) ==
    IF ~key.ok THEN WireError("IOError", key.s)
    ELSE IF h.total_body_length < h.key_length + h.extras_length THEN WireError("underflow", key.s)
    ELSE LET value == Stream_read_exact(key.s, h.total_body_length - h.key_length - h.extras_length)
         IN IF ~value.ok THEN WireError("IOError", value.s)
            ELSE WireResponse(TRUE, "none", h, extras.data, key.data, value.data, value.s)

BodyKey(h, extras) ==
    IF ~extras.ok THEN WireError("IOError", extras.s)
    ELSE BodyValue(h, extras, Stream_read_exact(extras.s, h.key_length))

BodyExtras(h) ==
    IF ~h.ok THEN h ELSE BodyKey(h.header, Stream_read_exact(h.s, h.header.extras_length))

parse_response_bytes(s) == BodyExtras(PacketHeader_read_bytes(s))

\* The responses a byte stream is made of: with and without extras, key
\* and value, of every length up to 3, 4 and 8.
WireResponses ==
    {Response(OpGet, OK_STATUS, NoKey, BE32(0), <<97>>, 1),
     Response(OpGet, OK_STATUS, NoKey, BE32(7), <<>>, 2),
     Response(OpGetKQ, OK_STATUS, KB, BE32(0), <<97, 98>>, 3),
     Response(OpGetKQ, OK_STATUS, KC, BE32(258), <<129, 0, 129>>, 4),
     Response(OpStat, OK_STATUS, StatKey, <<>>, <<49>>, 0),
     Response(OpStat, OK_STATUS, StatKey, <<>>, <<>>, 0),
     Response(OpVersion, OK_STATUS, NoKey, <<>>, <<49, 46, 54>>, 0),
     Response(OpIncrement, OK_STATUS, NoKey, <<>>, BE64(300), 5),
     StatusOnly(OpSet, OK_STATUS, 6),
     StatusOnly(OpNoop, OK_STATUS, 0),
     StatusOnly(OpGet, StKeyNotFound, 0),
     StatusOnly(OpSet, StUnknownCommand, 0)}

\* The peer has written the packets of sent; out is what parse_response
\* returned, call after call, with the position it started at.
Wire(sent) == [sent |-> sent, stream |-> ByteStream(Packets(sent)), out |-> <<>>]

NoWire == Wire(<<>>)

(***************************************************************************)
(* Client facade (client/mod.rs): the calls a caller can make.             *)
(***************************************************************************)
Call(op, key, val, ty, exp, amount, cas, keys) ==
    [op |-> op, key |-> key, val |-> val, ty |-> ty, exp |-> exp, amount |-> amount,
     cas |-> cas, keys |-> keys]

NoCall == Call("none", NoKey, NoVal, "none", 0, 0, 0, <<>>)

\* The inputs the model draws from.
OpKeys == {KA, KB}

Types == {"String", "u64", "Vec<u8>"}

\* The values set is called with, one of each supported kind, and a string
\* of decimal digits.
Values == {StrVal(<<97>>), StrVal(<<53>>), U64Val(10), BytesVal(<<1>>)}

\* The value the other storing verbs are called with.
NewValues == {StrVal(<<98>>)}

Exps == {100}

Amounts == {3, 11}

CasIds == {0, 1, 2}

Delays == {2}

KeyLists == UNION {[1..n -> Keys] : n \in 0..MaxGetsKeys}

StoreOps == {"set", "add", "replace"}

ConcatOps == {"append", "prepend"}

CounterOps == {"increment", "decrement"}

KeyedOps == StoreOps \cup ConcatOps \cup CounterOps \cup {"get", "delete", "touch", "cas"}

AllShardOps == {"flush", "flush_with_delay", "version", "stats"}

\* The keyed calls, on the key k.
KeyedCalls(k, types, values, newvalues, amounts, casids) ==
    {Call("get", k, NoVal, ty, 0, 0, 0, <<>>) : ty \in types}
    \cup {Call("set", k, v, v.ty, e, 0, 0, <<>>) : v \in values, e \in Exps}
    \cup {Call(op, k, v, v.ty, e, 0, 0, <<>>) : op \in {"add", "replace"}, v \in newvalues, e \in Exps}
    \cup {Call(op, k, v, v.ty, 0, 0, 0, <<>>) : op \in ConcatOps, v \in newvalues}
    \cup {Call("delete", k, NoVal, "none", 0, 0, 0, <<>>)}
    \cup {Call(op, k, NoVal, "none", 0, a, 0, <<>>) : op \in CounterOps, a \in amounts}
    \cup {Call("touch", k, NoVal, "none", e, 0, 0, <<>>) : e \in Exps}
    \cup {Call("cas", k, v, v.ty, e, 0, t, <<>>) : v \in newvalues, e \in Exps, t \in casids}

\* The calls without a key.
UnkeyedCalls ==
    {Call("flush", NoKey, NoVal, "none", 0, 0, 0, <<>>),
     Call("version", NoKey, NoVal, "none", 0, 0, 0, <<>>),
     Call("stats", NoKey, NoVal, "none", 0, 0, 0, <<>>)}
    \cup {Call("flush_with_delay", NoKey, NoVal, "none", 0, d, 0, <<>>) : d \in Delays}

GetsCalls == {Call("gets", NoKey, NoVal, "Vec<u8>", 0, 0, 0, ks) : ks \in KeyLists}

\* Every verb on the keys of legal length, every keyed verb once on the key
\* that is too long.
Calls ==
    UNION {KeyedCalls(k, Types, Values, NewValues, Amounts, CasIds) : k \in OpKeys}
    \cup KeyedCalls(KL, {"String"}, {StrVal(<<97>>)}, NewValues, {3}, {0})
    \cup GetsCalls
    \cup UnkeyedCalls

\* A mutant of check_key_len: the comparison is off by one.
check_key_len_off_by_one(key) == IF key.len >= MaxKeyLen THEN Err("KeyTooLong") ELSE OkUnit

\* check::check_key_len.
check_key_len(key) == IF key.len > MaxKeyLen THEN Err("KeyTooLong") ELSE OkUnit

\* A mutant of get_connection: every key is routed to the first pool.
get_connection_first(key) == 0

\* Client::get_connection: the index of the pool a key belongs to.
get_connection(key) == hash_function(key) % connections_count

\* Client::gets, con_keys: the keys of the list a shard owns, in list order.
con_keys(keys, s) == SelectSeq(keys, LAMBDA k : get_connection(k) = s)

\* A mutant of the key check of gets: only the first key is validated.
CheckedKeys_first(c) ==
    IF c.op \in KeyedOps THEN {c.key}
    ELSE IF c.op = "gets" /\ Len(c.keys) > 0 THEN {c.keys[1]}
    ELSE {}

\* The keys a call validates before anything else.
CheckedKeys(c) ==
    IF c.op \in KeyedOps THEN {c.key} ELSE IF c.op = "gets" THEN Range(c.keys) ELSE {}

\* A mutant of ShardsOf: gets visits every pool.
ShardsOf_all(c) == IF c.op \in KeyedOps THEN {get_connection(c.key)} ELSE Shards

\* A mutant of ShardsOf: a call without a key visits the first pool only.
ShardsOf_one(c) ==
    IF c.op \in KeyedOps THEN {get_connection(c.key)}
    ELSE IF c.op = "gets" THEN {get_connection(k) : k \in Range(c.keys)}
    ELSE {0}

\* The pools a call takes a connection from.
ShardsOf(c) ==
    IF c.op \in KeyedOps THEN {get_connection(c.key)}
    ELSE IF c.op = "gets" THEN {get_connection(k) : k \in Range(c.keys)}
    ELSE Shards

\* The requests the verb writes on the connection of shard s, in order.
RequestsOf(c, s) ==
    CASE c.op = "get" -> <<get_request(c.key)>>
      [] c.op = "set" -> <<store_request(OpSet, c.key, c.val, c.exp, 0)>>
      [] c.op = "add" -> <<store_request(OpAdd, c.key, c.val, c.exp, 0)>>
      [] c.op = "replace" -> <<store_request(OpReplace, c.key, c.val, c.exp, 0)>>
      [] c.op = "cas" -> <<store_request(OpSet, c.key, c.val, c.exp, c.cas)>>
      [] c.op = "append" -> <<append_request(OpAppend, c.key, c.val)>>
      [] c.op = "prepend" -> <<append_request(OpPrepend, c.key, c.val)>>
      [] c.op = "delete" -> <<delete_request(c.key)>>
      [] c.op = "increment" -> <<counter_request(OpIncrement, c.key, c.amount)>>
      [] c.op = "decrement" -> <<counter_request(OpDecrement, c.key, c.amount)>>
      [] c.op = "touch" -> <<touch_request(c.key, c.exp)>>
      [] c.op = "gets" -> gets_requests(con_keys(c.keys, s))
      [] c.op = "flush" -> <<flush_request>>
      [] c.op = "flush_with_delay" -> <<flush_with_delay_request(c.amount)>>
      [] c.op = "version" -> <<version_request>>
      [] OTHER -> <<stats_request>>

\* The response parser the verb hands the stream to.
ParseFor(c, s, stream) ==
    CASE c.op = "get" -> parse_get_response(c.ty, stream)
      [] c.op \in StoreOps -> parse_status_response(stream)
      [] c.op = "cas" -> parse_cas_response(stream)
      [] c.op = "append" -> parse_status_response(stream)
      [] c.op = "prepend" -> parse_unchecked_response(stream)
      [] c.op = "delete" -> parse_delete_response(stream)
      [] c.op \in CounterOps -> parse_counter_response(stream)
      [] c.op = "touch" -> parse_touch_response(stream)
      [] c.op = "gets" -> parse_gets_response(stream, Len(con_keys(c.keys, s)))
      [] c.op \in {"flush", "flush_with_delay"} -> parse_status_response(stream)
      [] c.op = "version" -> parse_version_response(stream)
      [] OTHER -> parse_stats_response(stream)

\* The value a call starts accumulating into, and how one shard's result
\* is added to it.
StartAcc(c) ==
    IF c.op \in {"gets"} THEN OkMap({})
    ELSE IF c.op \in {"version", "stats"} THEN OkList(<<>>)
    ELSE OkUnit

Combine(c, acc, res, s) ==
    CASE c.op = "gets" -> OkMap(Extend(acc.map, res.map))
      [] c.op = "version" -> OkList(Append(acc.list, res.val.v))
      [] c.op = "stats" -> OkList(Append(acc.list, [url |-> connections[s + 1].text, map |-> res.map]))
      [] c.op \in {"flush", "flush_with_delay"} -> OkUnit
      [] OTHER -> res

(***************************************************************************)
(* State.                                                                  *)
(***************************************************************************)
VARIABLES
    store,         \* store[s][id]: the item the server of shard s holds for a key
    casCtr,        \* casCtr[s]: the last cas token the server of shard s issued
    flushPending,  \* flushPending[s]: a delayed flush has been accepted and not yet applied
    conns,         \* conns[s][c]: the connections of pool s
    pc,            \* pc[p]: where caller p is in its operation
    call,          \* call[p]: the operation caller p is running
    todo,          \* todo[p]: the shards the operation has still to visit
    held,          \* held[p]: the connection caller p holds
    acc,           \* acc[p]: what the operation has gathered so far
    result,        \* result[p]: what the operation returned
    obs,           \* obs[p]: what was observed at the server when p's requests were handled
    last,          \* last[p]: the operation p ran before this one, its result and observation
    nops,          \* operations started so far
    client,        \* the Client, once it is constructed
    wire,          \* a connection seen as bytes: what the peer wrote and what was read of it
    coded          \* a value on its way through the transcoder

vars == <<store, casCtr, flushPending, conns, pc, call, todo, held, acc, result, obs, last, nops,
          client, wire, coded>>

Procs == {1, 2}

\* A pool never has to hold more connections than there are callers.
ConnIds == Procs

NoConn == [s |-> 0, c |-> 0]

\* A connection slot of a pool.  tainted remembers that a framing or
\* transport error happened on the connection, authed that a SASL exchange
\* was completed on it.
ClosedConn == [st |-> "closed", stream |-> NewStream, tainted |-> FALSE, authed |-> FALSE]

\* What is remembered of an operation for the properties: the item of its key
\* when it began (start), when the server handled its request (before) and
\* right after (after), the number of requests written (sent), the responses
\* written in answer (resps), whether the connection had nothing unread on it
\* when the request was written (fresh), whether a request that was not
\* for another key was handled while the operation ran (mixed), for every
\* request written the shard it went to, its key and the item that shard held
\* for the key (served), the connection of the last write (conn), the
\* number of responses taken from it since (read), and whether the
\* connection the pool handed out last was an idle one and whether the peer
\* had closed it by then (handed), the requests of the last write in the
\* order they were written (reqs) and whether the verb called flush after
\* them (flushed).
NoObs == [start |-> NoItem, before |-> NoItem, after |-> NoItem, sent |-> 0, resps |-> <<>>,
          fresh |-> TRUE, mixed |-> FALSE, served |-> {}, conn |-> NoConn, read |-> 0,
          handed |-> [idle |-> FALSE, eof |-> FALSE], reqs |-> <<>>, flushed |-> FALSE]

\* The requests reqs as the server of shard s, holding st, was asked them.
Served(s, st, reqs) ==
    {[s |-> s, key |-> reqs[i].key,
      item |-> IF reqs[i].key.id \in KeyIds THEN st[reqs[i].key.id] ELSE NoItem] : i \in 1..Len(reqs)}

\* The item the server holds for the key of call c.
ItemOf(st, c) ==
    IF c.op \in KeyedOps THEN st[get_connection(c.key)][c.key.id] ELSE NoItem

NoLast == [call |-> NoCall, result |-> NoResult, obs |-> NoObs]

\* Server contents the model starts from: a fresh server, and one another
\* client has written to.
FreshStore == [s \in Shards |-> EmptyStore]

UsedStore ==
    [s \in Shards |->
        IF s = 0
        THEN [EmptyStore EXCEPT ![KA.id] = Item(<<49, 48>>, 0, 2, NoVal),
                                ![KC.id] = Item(<<97>>, 0, 3, NoVal)]
        ELSE [EmptyStore EXCEPT ![KB.id] = Item(<<97>>, 0, 1, NoVal)]]

Unconstructed ==
    /\ \/ store = FreshStore /\ casCtr = [s \in Shards |-> 0]
       \/ store = UsedStore /\ casCtr = [s \in Shards |-> IF s = 0 THEN 3 ELSE 1]
    /\ flushPending = [s \in Shards |-> FALSE]
    /\ conns = [s \in Shards |-> [c \in ConnIds |-> ClosedConn]]
    /\ pc = [p \in Procs |-> "idle"]
    /\ call = [p \in Procs |-> NoCall]
    /\ todo = [p \in Procs |-> {}]
    /\ held = [p \in Procs |-> NoConn]
    /\ acc = [p \in Procs |-> NoResult]
    /\ result = [p \in Procs |-> NoResult]
    /\ obs = [p \in Procs |-> NoObs]
    /\ last = [p \in Procs |-> NoLast]
    /\ nops = 0

\* The state after construction of the client.
Init == Unconstructed /\ client = TheClient /\ wire = NoWire /\ coded = NoCoded

\* The state before it.
InitConnect == Unconstructed /\ client = NoClient /\ wire = NoWire /\ coded = NoCoded

(***************************************************************************)
(* The connection pool (environment): it lends a connection to one caller  *)
(* at a time and takes it back when the caller drops it.                   *)
(***************************************************************************)
IdleConns(pool) == {c \in ConnIds : pool[c].st = "idle"}

ClosedConns(pool) == {c \in ConnIds : pool[c].st = "closed"}

\* Pool::get: an idle connection if there is one, else a new one
\* (ConnectionManager::connect).
PoolGet(pool) ==
    IF IdleConns(pool) # {} THEN IdleConns(pool)
    ELSE IF ClosedConns(pool) # {} THEN {CHOOSE c \in ClosedConns(pool) : \A d \in ClosedConns(pool) : c <= d}
    ELSE {}

\* Dropping the guard: the connection goes back to the idle list as it is,
\* or is closed when the idle list is full.
PoolPut(pool, c, stream, tainted) ==
    IF Cardinality(IdleConns(pool)) < PoolSize
    THEN [pool EXCEPT ![c] = [@ EXCEPT !.st = "idle", !.stream = stream, !.tainted = tainted]]
    ELSE [pool EXCEPT ![c] = ClosedConn]

(***************************************************************************)
(* Actions.                                                                *)
(***************************************************************************)
\* A caller starts an operation: the keys are validated, then the shards to
\* visit are worked out.
Begin(p, c) ==
    /\ client.made = "ok"
    /\ pc[p] = "idle"
    /\ nops < MaxOps
    /\ nops' = nops + 1
    /\ call' = [call EXCEPT ![p] = c]
    /\ obs' = [obs EXCEPT ![p] = [NoObs EXCEPT !.start = ItemOf(store, c)]]
    /\ IF \E k \in CheckedKeys(c) : check_key_len(k).kind = "err"
       THEN /\ result' = [result EXCEPT ![p] = Err("KeyTooLong")]
            /\ pc' = [pc EXCEPT ![p] = "done"]
            /\ UNCHANGED <<todo, acc>>
       ELSE IF ShardsOf(c) = {}
       THEN /\ result' = [result EXCEPT ![p] = StartAcc(c)]
            /\ pc' = [pc EXCEPT ![p] = "done"]
            /\ UNCHANGED <<todo, acc>>
       ELSE /\ todo' = [todo EXCEPT ![p] = ShardsOf(c)]
            /\ acc' = [acc EXCEPT ![p] = StartAcc(c)]
            /\ pc' = [pc EXCEPT ![p] = "acquire"]
            /\ UNCHANGED result
    /\ UNCHANGED <<store, casCtr, flushPending, conns, held, last, client, wire, coded>>

\* The shard an operation visits next: gets walks a HashMap (any order),
\* the other verbs walk the pool list in order.
NextShards(p) ==
    IF call[p].op = "gets" THEN todo[p]
    ELSE {s \in todo[p] : \A t \in todo[p] : s <= t}

\* url.has_authority() && !url.username().is_empty() && url.password().is_some()
HasCredentials(url) == url.has_authority /\ url.username # "" /\ url.has_password

\* ConnectionManager::connect: the transport is opened and wrapped; the call
\* of auth for a URL with credentials is commented out, nothing is written.
ConnectionManager_connect(url) ==
    [st |-> "busy", stream |-> NewStream, tainted |-> FALSE, authed |-> FALSE]

\* pool.get().await, the pool handing out an idle connection as it is, or
\* a new one.
Acquire(p) ==
    /\ pc[p] = "acquire"
    /\ \E s \in NextShards(p) : \E c \in PoolGet(conns[s]) :
          /\ conns' = [conns EXCEPT ![s][c] =
                          IF conns[s][c].st = "closed"
                          THEN ConnectionManager_connect(client.connections[s + 1])
                          ELSE [@ EXCEPT !.st = "busy"]]
          /\ held' = [held EXCEPT ![p] = [s |-> s, c |-> c]]
          /\ obs' = [obs EXCEPT ![p].handed = [idle |-> conns[s][c].st = "idle",
                                               eof |-> conns[s][c].stream.eof]]
    /\ pc' = [pc EXCEPT ![p] = "write"]
    /\ UNCHANGED <<store, casCtr, flushPending, call, todo, acc, result, last, nops, client, wire, coded>>

\* pool.get().await, the pool validating an idle connection first:
\* ConnectionManager::check is todo!(), the caller's task panics and the
\* connection handed to check is dropped.
AcquireCheck(p) ==
    /\ pc[p] = "acquire"
    /\ \E s \in NextShards(p) : \E c \in IdleConns(conns[s]) :
          conns' = [conns EXCEPT ![s][c] = ClosedConn]
    /\ pc' = [pc EXCEPT ![p] = "panicked"]
    /\ UNCHANGED <<store, casCtr, flushPending, call, todo, held, acc, result, obs, last, nops,
                   client, wire, coded>>

\* The ways a server refuses a request, and the status it answers with.
Refusals ==
    {"notfound", "exists", "toolarge", "invalid", "notstored", "nonnumeric", "auth", "unknown", "busy"}

RefusalStatus(fault) ==
    CASE fault = "notfound" -> StKeyNotFound
      [] fault = "exists" -> StKeyExists
      [] fault = "toolarge" -> StValueTooLarge
      [] fault = "invalid" -> StInvalidArguments
      [] fault = "notstored" -> StNotStored
      [] fault = "busy" -> StBusy
      [] fault = "nonnumeric" -> StNonNumeric
      [] fault = "auth" -> StAuthRequired
      [] OTHER -> StUnknownCommand

\* A response to a GetKQ nobody sent.
Stray == Response(OpGetKQ, OK_STATUS, KC, BE32(0), <<97>>, 3)

\* The responses a server writes for the requests it was sent: those of a
\* memcached server, or (a fault of Refusals) of a server that refuses every
\* request with one status, or (faults "magic", "echo") of a peer whose first
\* packet does not start with the response magic, or (fault "short") of a
\* peer whose first header gives a total body length that is less than the
\* lengths of extras and key it sends, or (fault "trailing") of a peer that
\* sends one more item after the answer to Noop, or (fault "silent") of a peer
\* that takes the request and writes nothing, or (fault "nonoop") of a peer
\* that goes on sending items where the answer to Noop is due.
Answer(h, reqs, fault) ==
    CASE fault \in Refusals ->
              [i \in 1..Len(reqs) |-> StatusOnly(reqs[i].opcode, RefusalStatus(fault), 0)]
      [] fault = "silent" -> <<>>
      [] fault = "magic" -> <<[Head(h.resps) EXCEPT !.magic = 0]>> \o Tail(h.resps)
      [] fault = "echo" -> <<[Head(h.resps) EXCEPT !.magic = MagicRequest]>> \o Tail(h.resps)
      [] fault = "short" ->
              IF Len(h.resps) > 0 /\ Head(h.resps).extras_length + Head(h.resps).key_length > 0
              THEN <<[Head(h.resps) EXCEPT
                         !.total_body_length = Head(h.resps).extras_length + Head(h.resps).key_length - 1]>>
                   \o Tail(h.resps)
              ELSE h.resps
      [] fault = "trailing" ->
              IF Len(h.resps) > 0 /\ h.resps[Len(h.resps)].opcode = OpNoop
              THEN h.resps \o <<Stray>>
              ELSE h.resps
      [] fault = "nonoop" ->
              IF Len(h.resps) > 0 /\ h.resps[Len(h.resps)].opcode = OpNoop
              THEN SubSeq(h.resps, 1, Len(h.resps) - 1) \o <<Stray, Stray>>
              ELSE h.resps
      [] OTHER -> h.resps

\* Errors of the framing and of the transport.
FramingErrors == {"BadMagic", "Misaligned", "IOError", "BadResponse"}

\* A variant of Finish: a gets whose sub-operation fails returns what the
\* shards before it gave.
Finish_partial(p, s, c, stream, res) ==
    LET bad == res.kind = "err" /\ res.err \in FramingErrors
        left == todo[p] \ {s}
    IN /\ conns' = [conns EXCEPT ![s] = PoolPut(conns[s], c, stream, conns[s][c].tainted \/ bad)]
       /\ held' = [held EXCEPT ![p] = NoConn]
       /\ IF res.kind = "err"
          THEN /\ result' = [result EXCEPT ![p] = IF call[p].op = "gets" THEN acc[p] ELSE res]
               /\ pc' = [pc EXCEPT ![p] = "done"]
               /\ UNCHANGED <<todo, acc>>
          ELSE IF left = {}
          THEN /\ result' = [result EXCEPT ![p] = Combine(call[p], acc[p], res, s)]
               /\ pc' = [pc EXCEPT ![p] = "done"]
               /\ todo' = [todo EXCEPT ![p] = {}]
               /\ UNCHANGED acc
          ELSE /\ acc' = [acc EXCEPT ![p] = Combine(call[p], acc[p], res, s)]
               /\ todo' = [todo EXCEPT ![p] = left]
               /\ pc' = [pc EXCEPT ![p] = "acquire"]
               /\ UNCHANGED result

\* The verb returns and the guard of the connection is dropped with it.
Finish(p, s, c, stream, res) ==
    LET bad == res.kind = "err" /\ res.err \in FramingErrors
        left == todo[p] \ {s}
    IN /\ conns' = [conns EXCEPT ![s] = PoolPut(conns[s], c, stream, conns[s][c].tainted \/ bad)]
       /\ held' = [held EXCEPT ![p] = NoConn]
       /\ IF res.kind = "err"
          THEN /\ result' = [result EXCEPT ![p] = res]
               /\ pc' = [pc EXCEPT ![p] = "done"]
               /\ UNCHANGED <<todo, acc>>
          ELSE IF left = {}
          THEN /\ result' = [result EXCEPT ![p] = Combine(call[p], acc[p], res, s)]
               /\ pc' = [pc EXCEPT ![p] = "done"]
               /\ todo' = [todo EXCEPT ![p] = {}]
               /\ UNCHANGED acc
          ELSE /\ acc' = [acc EXCEPT ![p] = Combine(call[p], acc[p], res, s)]
               /\ todo' = [todo EXCEPT ![p] = left]
               /\ pc' = [pc EXCEPT ![p] = "acquire"]
               /\ UNCHANGED result

\* Call c is for one key, and it is not the key of call d.
OtherKey(c, d) == c.op \in KeyedOps /\ d.op \in KeyedOps /\ c.key # d.key

\* The verb writes its request(s) and flushes; the server handles them.  On
\* a connection the peer has closed the write fails and the verb returns.
SendOn(p, fault) ==
    /\ pc[p] = "write"
    /\ LET s == held[p].s
           c == held[p].c
           reqs == RequestsOf(call[p], s)
           h == IF fault \in Refusals THEN Handled(store[s], casCtr[s], FALSE, <<>>)
                ELSE ServerRun(store[s], casCtr[s], FALSE, reqs)
           id == call[p].key.id
       IN IF conns[s][c].stream.eof
          THEN /\ Finish(p, s, c, conns[s][c].stream, Err("IOError"))
               /\ UNCHANGED <<store, casCtr, flushPending, obs>>
          ELSE /\ store' = [store EXCEPT ![s] = h.st]
               /\ casCtr' = [casCtr EXCEPT ![s] = h.ctr]
               /\ flushPending' = [flushPending EXCEPT ![s] = flushPending[s] \/ h.pending]
               /\ conns' = [conns EXCEPT ![s][c].stream.buf = @ \o Answer(h, reqs, fault)]
               /\ obs' = [q \in Procs |->
                             IF q = p
                             THEN [obs[p] EXCEPT
                                      !.before = IF id \in KeyIds THEN store[s][id] ELSE NoItem,
                                      !.after = IF id \in KeyIds THEN h.st[id] ELSE NoItem,
                                      !.sent = obs[p].sent + Len(reqs),
                                      !.resps = Answer(h, reqs, fault),
                                      !.served = obs[p].served \cup Served(s, store[s], reqs),
                                      !.conn = held[p],
                                      !.read = 0,
                                      !.reqs = reqs,
                                      !.flushed = flush(call[p]),
                                      !.fresh = conns[s][c].stream.buf = <<>> /\ conns[s][c].stream.off = 0]
                             ELSE IF pc[q] \in {"acquire", "write"} /\ ~OtherKey(call[p], call[q])
                             THEN [obs[q] EXCEPT !.mixed = TRUE]
                             ELSE obs[q]]
               /\ pc' = [pc EXCEPT ![p] = "read"]
               /\ UNCHANGED <<todo, held, acc, result>>
    /\ UNCHANGED <<call, last, nops, client, wire, coded>>

Send(p) == SendOn(p, "none")

\* The peer refuses every request, or answers with something that is no
\* response packet, or with none, or never ends its answer to gets.
SendFault(p) ==
    \E fault \in {"auth", "magic", "echo", "short", "trailing", "silent", "nonoop"} : SendOn(p, fault)

\* The server refuses the request with one of the protocol's statuses.
SendRefused(p) == \E fault \in Refusals : SendOn(p, fault)

\* The verb reads its response(s); the guard is dropped when the verb
\* returns, whatever it returns.  Where parse_response's subtraction
\* underflows, what happens depends on whether the build checks overflow.
Returned(p, s, c, o, overflow_checks) ==
    /\ obs' = [obs EXCEPT ![p].read = obs[p].read + Len(conns[s][c].stream.buf) - Len(o.stream.buf)]
    /\ IF o.res.kind = "underflow" /\ overflow_checks
       THEN \* the task panics; unwinding drops the guard
            /\ conns' = [conns EXCEPT ![s] = PoolPut(conns[s], c, o.stream, TRUE)]
            /\ held' = [held EXCEPT ![p] = NoConn]
            /\ pc' = [pc EXCEPT ![p] = "panicked_read"]
            /\ UNCHANGED <<todo, acc, result>>
       ELSE IF o.res.kind = "underflow"
       THEN \* the length wraps around: read_exact takes all there is and
            \* waits for the rest of 2^32 - d bytes
            /\ conns' = [conns EXCEPT ![s][c].stream =
                            [buf |-> <<>>, off |-> 0, eof |-> o.stream.eof]]
            /\ pc' = [pc EXCEPT ![p] = "blocked"]
            /\ UNCHANGED <<todo, held, acc, result>>
       ELSE IF o.res.kind = "blocked"
       THEN /\ pc' = [pc EXCEPT ![p] = "blocked"]
            /\ conns' = [conns EXCEPT ![s][c].stream = o.stream]
            /\ UNCHANGED <<todo, held, acc, result>>
       ELSE Finish(p, s, c, o.stream, o.res)

RecvOn(p, overflow_checks) ==
    /\ pc[p] = "read"
    /\ Returned(p, held[p].s, held[p].c,
                ParseFor(call[p], held[p].s, conns[held[p].s][held[p].c].stream), overflow_checks)
    /\ UNCHANGED <<store, casCtr, flushPending, call, last, nops, client, wire, coded>>

Recv(p) == \E overflow_checks \in BOOLEAN : RecvOn(p, overflow_checks)

\* A read that was waiting goes on when the stream has something to say.
Resume(p) ==
    /\ pc[p] = "blocked"
    /\ conns[held[p].s][held[p].c].stream.eof
    /\ pc' = [pc EXCEPT ![p] = "read"]
    /\ UNCHANGED <<store, casCtr, flushPending, conns, call, todo, held, acc, result, obs, last, nops,
                   client, wire, coded>>

\* The caller takes the result; it may start another operation.
Return(p) ==
    /\ pc[p] = "done"
    /\ pc' = [pc EXCEPT ![p] = "idle"]
    /\ last' = [last EXCEPT ![p] = [call |-> call[p], result |-> result[p], obs |-> obs[p]]]
    /\ call' = [call EXCEPT ![p] = NoCall]
    /\ result' = [result EXCEPT ![p] = NoResult]
    /\ acc' = [acc EXCEPT ![p] = NoResult]
    /\ obs' = [obs EXCEPT ![p] = NoObs]
    /\ todo' = [todo EXCEPT ![p] = {}]
    /\ UNCHANGED <<store, casCtr, flushPending, conns, held, nops, client, wire, coded>>

\* The delay of a flush_with_delay runs out at the server.
ServerTick(s) ==
    /\ flushPending[s]
    /\ flushPending' = [flushPending EXCEPT ![s] = FALSE]
    /\ store' = [store EXCEPT ![s] = EmptyStore]
    /\ UNCHANGED <<casCtr, conns, pc, call, todo, held, acc, result, obs, last, nops, client, wire, coded>>

\* The peer closes a connection.
ConnReset(s, c) ==
    /\ conns[s][c].st # "closed"
    /\ ~conns[s][c].stream.eof
    /\ conns' = [conns EXCEPT ![s][c].stream.eof = TRUE]
    /\ UNCHANGED <<store, casCtr, flushPending, pc, call, todo, held, acc, result, obs, last, nops,
                   client, wire, coded>>

\* parse_response is called on the byte stream.
ReadResponse ==
    /\ Len(wire.out) < Len(wire.sent)
    /\ \A i \in 1..Len(wire.out) : wire.out[i].res.ok
    /\ wire' = [wire EXCEPT
                    !.stream = parse_response_bytes(wire.stream).s,
                    !.out = Append(@, [from |-> wire.stream.pos,
                                       res |-> parse_response_bytes(wire.stream)])]
    /\ UNCHANGED <<store, casCtr, flushPending, conns, pc, call, todo, held, acc, result, obs, last,
                   nops, client, coded>>

\* serialize_bytes is called on a value.
Serialize ==
    /\ coded.stage = "new"
    /\ coded' = [coded EXCEPT !.stage = "serialized", !.bytes = serialize_bytes(coded.val)]
    /\ UNCHANGED <<store, casCtr, flushPending, conns, pc, call, todo, held, acc, result, obs, last,
                   nops, client, wire>>

\* deserialize_bytes::<T> is called on the bytes, T the value's type.
Deserialize ==
    /\ coded.stage = "serialized"
    /\ coded' = [coded EXCEPT !.stage = "deserialized",
                              !.out = deserialize_bytes(coded.val.ty, coded.bytes)]
    /\ UNCHANGED <<store, casCtr, flushPending, conns, pc, call, todo, held, acc, result, obs, last,
                   nops, client, wire>>

\* Client::connects_with is called.
Construct(urls, pool_size, hash) ==
    /\ client.made = "no"
    /\ client' = connects_with(urls, pool_size, hash)
    /\ UNCHANGED <<store, casCtr, flushPending, conns, pc, call, todo, held, acc, result, obs, last,
                   nops, wire, coded>>

\* One caller, a memcached server, a transport that does not fail.
Next ==
    \/ \E c \in Calls : Begin(1, c)
    \/ Acquire(1)
    \/ AcquireCheck(1)
    \/ Send(1)
    \/ Recv(1)
    \/ Return(1)
    \/ \E s \in Shards : ServerTick(s)

Spec == Init /\ [][Next]_vars


\* The calls of the concurrent callers: verbs on KA and KC, which share a
\* pool, and on KB, which has its own.
ConcCalls ==
    {c \in KeyedCalls(KA, {"String"}, {StrVal(<<97>>)}, NewValues, {3}, {2}) \cup
           KeyedCalls(KC, {"String"}, {StrVal(<<97>>)}, NewValues, {3}, {2}) :
        c.op \in {"get", "set", "add", "append", "increment", "delete"}}
    \cup {c \in KeyedCalls(KB, {"String"}, {StrVal(<<97>>)}, NewValues, {3}, {2}) : c.op \in {"get", "set"}}

\* Two callers share the client.
NextConc ==
    \E p \in Procs :
        \/ \E c \in ConcCalls : Begin(p, c)
        \/ Acquire(p)
        \/ AcquireCheck(p)
        \/ Send(p)
        \/ Recv(p)
        \/ Return(p)

SpecConc == Init /\ [][NextConc]_vars

\* The calls made of a peer that misbehaves.
FaultCalls ==
    {c \in KeyedCalls(KA, {"String"}, {StrVal(<<97>>)}, NewValues, {3}, {2}) : c.op \in {"get", "set", "delete"}}
    \cup {c \in GetsCalls : Range(c.keys) \subseteq {KA, KC} \/ c.keys = <<KA, KB>>}
    \cup {c \in UnkeyedCalls : c.op \in {"stats", "version"}}

\* One caller; the peer may refuse, garble or withhold its answers and may
\* close a connection.
NextFault ==
    \/ \E c \in FaultCalls : Begin(1, c)
    \/ Acquire(1)
    \/ AcquireCheck(1)
    \/ Send(1)
    \/ SendFault(1)
    \/ Recv(1)
    \/ Resume(1)
    \/ Return(1)
    \/ \E s \in Shards : \E c \in ConnIds : ConnReset(s, c)

SpecFault == Init /\ [][NextFault]_vars

\* The calls made of a server that may refuse them: the verbs that turn a
\* status into a boolean or into None, and set, which turns none; get and
\* set on a key of the other shard, and flush, which visits both.
RefuseCalls ==
    {c \in KeyedCalls(KA, {"String"}, {StrVal(<<97>>)}, NewValues, {3}, {1, 2}) :
        c.op \in {"get", "delete", "touch", "cas", "set"}}
    \cup {c \in KeyedCalls(KB, {"String"}, {StrVal(<<97>>)}, NewValues, {3}, {1}) : c.op \in {"get", "set"}}
    \cup {c \in UnkeyedCalls : c.op = "flush"}

\* One caller; the server answers, or refuses with a status of its choice.
NextRefuse ==
    \/ \E c \in RefuseCalls : Begin(1, c)
    \/ Acquire(1)
    \/ AcquireCheck(1)
    \/ Send(1)
    \/ SendRefused(1)
    \/ Recv(1)
    \/ Return(1)

SpecRefuse == Init /\ [][NextRefuse]_vars

\* The calls made of a client after it was constructed.
ConnectCalls ==
    {c \in KeyedCalls(KA, {"String"}, {StrVal(<<97>>)}, NewValues, {3}, {2}) \cup
           KeyedCalls(KB, {"String"}, {StrVal(<<97>>)}, NewValues, {3}, {2}) :
        c.op \in {"get", "set"}}

\* A client is constructed, from any list of URLs; one caller uses the
\* client that was built from the list the pools are modelled for.
NextConnect ==
    \/ \E urls \in UrlLists : \E hash \in HashFunctions : Construct(urls, PoolSize, hash)
    \/ /\ client = TheClient
       /\ \/ \E c \in ConnectCalls : Begin(1, c)
          \/ Acquire(1)
          \/ Send(1)
          \/ Recv(1)
          \/ Return(1)

SpecConnect == InitConnect /\ [][NextConnect]_vars

\* The calls that store and read back numbers: set of an integer of a type
\* of the downcast list, of one that is not in it and of a decimal string,
\* and get as a string and as an integer.
EncodeCalls ==
    {Call("set", KA, v, v.ty, 100, 0, 0, <<>>) : v \in {U64Val(10), UsizeVal(7), StrVal(<<53>>)}}
    \cup {Call("get", KA, NoVal, ty, 0, 0, 0, <<>>) : ty \in {"String", "u64"}}

\* One caller storing and reading numbers.
NextEncode ==
    \/ \E c \in EncodeCalls : Begin(1, c)
    \/ Acquire(1)
    \/ AcquireCheck(1)
    \/ Send(1)
    \/ Recv(1)
    \/ Return(1)

SpecEncode == Init /\ [][NextEncode]_vars

\* A connection on which the peer has written two responses.
InitWire ==
    /\ Unconstructed /\ client = TheClient /\ coded = NoCoded
    /\ wire \in {Wire(<<r1, r2>>) : r1 \in WireResponses, r2 \in WireResponses}

\* The responses are read off the bytes one after the other.
NextWire == ReadResponse

SpecWire == InitWire /\ [][NextWire]_vars

\* The values handed to the transcoder: strings of up to MaxStrLen bytes
\* with a space, a digit and a letter, integers of one and two digits, both
\* booleans, and a usize and a byte vector, which are no strings to it.
MaxStrLen == 3

TranscodeValues ==
    {StrVal(b) : b \in UNION {[1..n -> {32, 49, 97}] : n \in 0..MaxStrLen}}
    \cup {U64Val(n) : n \in 0..12}
    \cup {BoolVal(b) : b \in {0, 1}}
    \cup {UsizeVal(7), BytesVal(<<1, 2>>)}

InitTranscode ==
    /\ Unconstructed /\ client = TheClient /\ wire = NoWire
    /\ coded \in {Coded("new", v, <<>>, DecodeErr("none")) : v \in TranscodeValues}

\* A value is serialized and the bytes are deserialized.
NextTranscode == Serialize \/ Deserialize

SpecTranscode == InitTranscode /\ [][NextTranscode]_vars

(***************************************************************************)
(* Properties.                                                             *)
(***************************************************************************)
\* p's operation has returned to its caller.
Done(p) == pc[p] = "done"

\* p's operation is `op` and its request was handled by the server.
Ran(p, op) == Done(p) /\ call[p].op = op /\ obs[p].sent > 0

\* p's operation follows p's operation `op` on the same key, and the key's
\* item was not written in between.
Follows(p, op) ==
    /\ last[p].call.op = op
    /\ last[p].call.key = call[p].key
    /\ last[p].obs.sent > 0
    /\ obs[p].before = last[p].obs.after

\* C1: a get::<V>(k) that is the next operation on k after a successful
\* set(k, v, e) of a value v of type V returns Some(v), for strings,
\* integers and byte vectors.
C1_RoundTrip ==
    \A p \in Procs :
        (Ran(p, "get") /\ Follows(p, "set") /\ last[p].result = OkUnit
         /\ call[p].ty = last[p].call.val.ty)
        => result[p] = OkSome(last[p].call.val)

\* The token gets yielded for key k in result r (0: none).
TokenOf(r, k) ==
    IF r.kind = "ok" /\ r.tag = "map" /\ \E e \in r.map : e.key = k
    THEN (CHOOSE e \in r.map : e.key = k).cas
    ELSE 0

\* C5: after gets([.. k ..]) yielded token T for k and k was not written
\* since, cas(k, v2, e, T - 1) returns false and leaves the item as it was,
\* and cas(k, v2, e, T) returns true; and the get(k) that follows a cas with
\* the item's token returns v2.
C5_Cas ==
    \A p \in Procs :
        /\ (Ran(p, "cas") /\ last[p].call.op = "gets"
            /\ TokenOf(last[p].result, call[p].key) > 0
            /\ obs[p].before.present
            /\ obs[p].before.cas = TokenOf(last[p].result, call[p].key))
           => /\ call[p].cas = obs[p].before.cas - 1
                   => result[p] = OkBool(FALSE) /\ obs[p].after = obs[p].before
              /\ call[p].cas = obs[p].before.cas
                   => result[p] = OkBool(TRUE) /\ obs[p].after.origin = call[p].val
        /\ (Ran(p, "get") /\ Follows(p, "cas") /\ last[p].result = OkBool(TRUE)
            /\ last[p].obs.before.present
            /\ last[p].call.cas = last[p].obs.before.cas
            /\ call[p].ty = last[p].call.val.ty)
           => result[p] = OkSome(last[p].call.val)

\* The verbs whose status is turned neither into a boolean nor into None.
ErrVerbs ==
    {"set", "add", "replace", "append", "prepend", "increment", "decrement",
     "flush", "flush_with_delay", "version", "stats"}

\* A response with a status other than 0x0 was written in answer to p.
NonOkAnswer(p) == \E i \in 1..Len(obs[p].resps) : obs[p].resps[i].status # OK_STATUS

\* C6: set, add, replace, append, prepend, increment, decrement, flush,
\* flush_with_delay, version and stats return an error when the response
\* has a status other than 0x0.
C6_NonOkIsError ==
    \A p \in Procs :
        (Done(p) /\ call[p].op \in ErrVerbs /\ NonOkAnswer(p)) => result[p].kind = "err"

\* C7: a keyed operation with a key of 250 bytes is not refused for its key
\* and its request is written; with a key of 251 bytes or more it returns
\* KeyTooLong, having taken no connection and written nothing.
C7_KeyLength ==
    \A p \in Procs :
        call[p].op \in KeyedOps =>
            /\ call[p].key.len >= 251
                 => /\ Done(p)
                    /\ result[p] = Err("KeyTooLong")
                    /\ held[p] = NoConn
                    /\ obs[p].sent = 0
            /\ call[p].key.len = 250
                 => /\ result[p] # Err("KeyTooLong")
                    /\ pc[p] \in {"read", "done"} => obs[p].sent = 1

\* C7 witness: a keyed call with a key of 251 bytes was refused, after one
\* with a key of 250 bytes went to the server.
C7_Witness ==
    /\ Done(1) /\ call[1].op \in KeyedOps /\ call[1].key.len = 251
    /\ result[1] = Err("KeyTooLong")
    /\ last[1].call.op \in KeyedOps /\ last[1].call.key.len = 250 /\ last[1].obs.sent = 1

\* Some key handed to gets is too long.
HasLongKey(c) == \E i \in 1..Len(c.keys) : c.keys[i].len > 250

\* C8: gets with a key longer than 250 bytes among its keys returns
\* KeyTooLong and writes no request to any shard.
C8_GetsAllOrNothing ==
    \A p \in Procs :
        (call[p].op = "gets" /\ HasLongKey(call[p]))
        => /\ Done(p)
           /\ result[p] = Err("KeyTooLong")
           /\ held[p] = NoConn
           /\ obs[p].sent = 0

\* C8 witness: gets was refused for its second key, the first being a legal
\* key of another shard.
C8_Witness ==
    /\ Done(1) /\ call[1].op = "gets" /\ call[1].keys = <<KA, KL>>
    /\ result[1] = Err("KeyTooLong")

\* C9: add on a key that exists returns KeyExists, replace on a key that
\* does not exist returns KeyNotFound, and the key's item is as before.
C9_AddReplace ==
    \A p \in Procs :
        /\ (Ran(p, "add") /\ obs[p].before.present)
           => result[p] = Err("KeyExists") /\ obs[p].after = obs[p].before
        /\ (Ran(p, "replace") /\ ~obs[p].before.present)
           => result[p] = Err("KeyNotFound") /\ obs[p].after = obs[p].before

\* C9 witness: the add that follows a set of the same key was refused with
\* KeyExists and the item set is still there.
C9_Witness ==
    /\ Ran(1, "add") /\ Follows(1, "set") /\ last[1].result = OkUnit
    /\ result[1] = Err("KeyExists")
    /\ obs[1].after = last[1].obs.after

\* C10: get on a key the server does not hold (never written, deleted or
\* flushed) returns Ok(None).
C10_Miss ==
    \A p \in Procs : (Ran(p, "get") /\ ~obs[p].before.present) => result[p] = OkNone

\* C10 witness: get returned None for a key that the delete before it removed.
C10_Witness ==
    /\ Ran(1, "get") /\ result[1] = OkNone
    /\ Follows(1, "delete") /\ last[1].result = OkBool(TRUE)

\* What call c returns when it is the only operation running and the server
\* holds `item` for its key: the answer to its request, read from a
\* connection with nothing else on it.
AloneResult(c, item) ==
    LET s == get_connection(c.key)
        h == ServerRun([EmptyStore EXCEPT ![c.key.id] = item], item.cas, FALSE, RequestsOf(c, s))
    IN ParseFor(c, s, [NewStream EXCEPT !.buf = h.resps]).res

\* C3: no connection is held by two callers at once; what a caller finds
\* on its connection when it reads is the answer to its own request and
\* nothing else; and an operation that ran while only operations on other
\* keys ran returns what it returns when run alone.
C3_Exclusive ==
    /\ \A p, q \in Procs : (p # q /\ held[p] # NoConn) => held[q] # held[p]
    /\ \A p \in Procs :
          pc[p] = "read" => conns[held[p].s][held[p].c].stream = [NewStream EXCEPT !.buf = obs[p].resps]
    /\ \A p \in Procs :
          (Done(p) /\ call[p].op \in KeyedOps /\ obs[p].sent > 0 /\ ~obs[p].mixed)
          => /\ obs[p].before = obs[p].start
             /\ result[p] = AloneResult(call[p], obs[p].start)

\* C3 witness: caller 1 has its result while caller 2, working on another
\* key of the same shard, holds a connection of the same pool and waits for
\* its answer.
C3_Witness ==
    /\ Done(1) /\ obs[1].sent > 0 /\ ~obs[1].mixed
    /\ pc[2] = "read" /\ held[2].s = get_connection(call[1].key)
    /\ call[2].key # call[1].key
    /\ result[1] = AloneResult(call[1], obs[1].start)

\* C2: a request is written only on a connection with nothing unread on
\* it, so what an operation reads is never the answer to an earlier request;
\* stated for the connections on which no framing or transport error
\* happened (those are the subject of C4).
C2_Pairing ==
    \A p \in Procs :
        (pc[p] \in {"read", "blocked"} /\ ~conns[held[p].s][held[p].c].tainted) => obs[p].fresh

\* C4: a connection on which a framing or transport error happened is in no
\* pool and in no caller's hands afterwards.
C4_ErrorDropped ==
    \A s \in Shards : \A c \in ConnIds :
        conns[s][c].tainted => conns[s][c].st \notin {"idle", "busy"}

\* C11: delete on a key the server holds returns true and removes the item;
\* delete on a key it does not hold returns false; the get that follows a
\* delete returns None and the delete that follows a delete returns false.
C11_Delete ==
    \A p \in Procs :
        /\ (Ran(p, "delete") /\ obs[p].before.present)
           => result[p] = OkBool(TRUE) /\ ~obs[p].after.present
        /\ (Ran(p, "delete") /\ ~obs[p].before.present)
           => result[p] = OkBool(FALSE) /\ obs[p].after = obs[p].before
        /\ (Ran(p, "get") /\ Follows(p, "delete")) => result[p] = OkNone
        /\ (Ran(p, "delete") /\ Follows(p, "delete")) => result[p] = OkBool(FALSE)

\* C11 witness: the second delete in a row returned false, the first true.
C11_Witness ==
    /\ Ran(1, "delete") /\ Follows(1, "delete")
    /\ last[1].result = OkBool(TRUE)
    /\ result[1] = OkBool(FALSE)

\* p's operation wrote one request on a connection with nothing unread on
\* it and was sent one well-formed response: the one its parser read.
OneAnswer(p) ==
    /\ Done(p) /\ obs[p].sent = 1 /\ obs[p].fresh
    /\ Len(obs[p].resps) = 1
    /\ obs[p].resps[1].magic = MagicResponse

Decimal(b) == Len(b) > 0 /\ \A i \in 1..Len(b) : IsDigit(b[i])

\* The value is a decimal number, written as a string or numeric.
IsNumberVal(val) == val.ty = "u64" \/ (val.ty = "String" /\ Decimal(val.v))

NumberOf(val) == IF val.ty = "u64" THEN val.v[1] ELSE DecValue(val.v)

\* C13: increment(k, a) on a key holding the decimal number n returns n + a
\* and leaves the decimal n + a; so it does right after a set of n as a
\* string or as a number; an increment that follows an increment returns
\* what that one returned plus a; and the get::<u64> that follows an
\* increment of a key set to a decimal number returns what it returned.
C13_Increment ==
    \A p \in Procs :
        /\ (Ran(p, "increment") /\ obs[p].before.present /\ Decimal(obs[p].before.value))
           => /\ result[p] = OkNum(DecValue(obs[p].before.value) + call[p].amount)
              /\ obs[p].after.value = Digits(DecValue(obs[p].before.value) + call[p].amount)
        /\ (Ran(p, "increment") /\ Follows(p, "set") /\ last[p].result = OkUnit
            /\ IsNumberVal(last[p].call.val))
           => result[p] = OkNum(NumberOf(last[p].call.val) + call[p].amount)
        /\ (Ran(p, "increment") /\ Follows(p, "increment") /\ last[p].result.tag = "u64")
           => result[p] = OkNum(last[p].result.num + call[p].amount)
        /\ (Ran(p, "get") /\ call[p].ty = "u64" /\ Follows(p, "increment")
            /\ last[p].result.tag = "u64" /\ Decimal(last[p].obs.before.value))
           => result[p] = OkSome(U64Val(last[p].result.num))

\* C13 witness: the second increment in a row returned the sum of both
\* amounts and the number the key held.
C13_Witness ==
    /\ Ran(1, "increment") /\ Follows(1, "increment")
    /\ Decimal(last[1].obs.before.value)
    /\ result[1] = OkNum(DecValue(last[1].obs.before.value) + last[1].call.amount + call[1].amount)

\* C14: decrement(k, a) on a key holding the number n returns n - a when
\* a <= n and 0 when a > n.
C14_Decrement ==
    \A p \in Procs :
        (Ran(p, "decrement") /\ obs[p].before.present /\ ServerNumber(obs[p].before.value).ok)
        => LET n == ServerNumber(obs[p].before.value).n
               a == call[p].amount
           IN /\ a <= n => result[p] = OkNum(n - a)
              /\ a > n => result[p] = OkNum(0)
              /\ result[p].tag = "u64" /\ result[p].num >= 0 /\ result[p].num <= n

\* C14 witness: a decrement by more than the key held returned 0, after a
\* decrement by less had returned the difference.
C14_Witness ==
    /\ Ran(1, "decrement") /\ Follows(1, "decrement")
    /\ last[1].result.tag = "u64" /\ last[1].result.num > 0
    /\ call[1].amount > last[1].result.num
    /\ result[1] = OkNum(0)

\* C15: set of a string stores its bytes; append of a string b to an item
\* holding x leaves x followed by b, prepend leaves b followed by x, and
\* nothing else; get::<String> after either returns exactly those bytes.
C15_Concat ==
    \A p \in Procs :
        /\ (Ran(p, "set") /\ call[p].val.ty = "String" /\ result[p] = OkUnit)
           => obs[p].after.value = call[p].val.v
        /\ (Ran(p, "append") /\ obs[p].before.present /\ call[p].val.ty = "String")
           => result[p] = OkUnit /\ obs[p].after.value = obs[p].before.value \o call[p].val.v
        /\ (Ran(p, "prepend") /\ obs[p].before.present /\ call[p].val.ty = "String")
           => result[p] = OkUnit /\ obs[p].after.value = call[p].val.v \o obs[p].before.value
        /\ (Ran(p, "append") /\ Follows(p, "set") /\ last[p].result = OkUnit
            /\ last[p].call.val.ty = "String")
           => obs[p].after.value = last[p].call.val.v \o call[p].val.v
        /\ (Ran(p, "get") /\ call[p].ty = "String" /\ Follows(p, "append")
            /\ last[p].obs.before.present /\ Utf8Valid(last[p].obs.before.value))
           => result[p] = OkSome(StrVal(last[p].obs.before.value \o last[p].call.val.v))
        /\ (Ran(p, "get") /\ call[p].ty = "String" /\ Follows(p, "prepend")
            /\ last[p].obs.before.present /\ Utf8Valid(last[p].obs.before.value))
           => result[p] = OkSome(StrVal(last[p].call.val.v \o last[p].obs.before.value))

\* C15 witness: get::<String> after prepend of "b" to an item holding "a"
\* returned "ba".
C15_Witness ==
    /\ Ran(1, "get") /\ call[1].ty = "String" /\ Follows(1, "prepend")
    /\ last[1].obs.before.value = <<97>> /\ last[1].call.val = StrVal(<<98>>)
    /\ result[1] = OkSome(StrVal(<<98, 97>>))

\* The number of keys of p's gets on the connection it wrote to last.
KeyCount(p) == Len(con_keys(call[p].keys, obs[p].conn.s))

\* The responses a gets with n keys can read of those sent to it.
Readable(resps, n) == SubSeq(resps, 1, Min(Len(resps), n + 1))

\* The response is one more item: OK, not Noop, with its flags.
IsHit(r) ==
    /\ r.magic = MagicResponse /\ r.status = OK_STATUS
    /\ r.opcode # OpNoop /\ r.extras_length = 4

\* C16: gets takes at most key_count + 1 responses from a connection; when
\* none of the responses it can read is the Noop it returns an error and no
\* map, the 'expected end' BadResponse when key_count + 1 items came.
C16_GetsBound ==
    \A p \in Procs :
        (call[p].op = "gets" /\ obs[p].sent > 0) =>
            LET readable == Readable(obs[p].resps, KeyCount(p))
                noNoop == \A i \in 1..Len(readable) : readable[i].opcode # OpNoop
            IN /\ obs[p].read <= KeyCount(p) + 1
               /\ (Done(p) /\ obs[p].fresh /\ noNoop)
                  => /\ result[p].kind = "err"
                     /\ (Len(readable) = KeyCount(p) + 1 /\ \A i \in 1..Len(readable) : IsHit(readable[i]))
                        => result[p] = Err("BadResponse") /\ obs[p].read = KeyCount(p) + 1

\* C16 witness: gets of two keys was sent four items and no Noop, read three
\* of them and returned BadResponse.
C16_Witness ==
    /\ Done(1) /\ call[1].op = "gets" /\ KeyCount(1) = 2
    /\ obs[1].fresh /\ Len(obs[1].resps) = 4
    /\ obs[1].read = 3
    /\ result[1] = Err("BadResponse")

\* The shard that owns a key.
Owner(k) == k.hash % connections_count

\* The entries a gets is due: one for each GetKQ the server held an item for.
Due(served) ==
    {Entry(e.key, e.item.value, e.item.flags, e.item.cas) : e \in {x \in served : x.item.present}}

\* C17: gets with keys of legal length returns a map; the map holds an entry
\* for exactly those requested keys the server of their shard held, with
\* the value, flags and cas of the item held; a key not held has no entry.
C17_GetsMisses ==
    \A p \in Procs :
        (Done(p) /\ call[p].op = "gets" /\ ~HasLongKey(call[p]))
        => /\ result[p].kind = "ok" /\ result[p].tag = "map"
           /\ result[p].map = Due(obs[p].served)
           /\ \A k \in Range(call[p].keys) :
                 /\ \E e \in obs[p].served : e.key = k /\ e.s = Owner(k)
                 /\ \A e \in obs[p].served :
                       (e.key = k /\ ~e.item.present) => \A x \in result[p].map : x.key # k

\* C17 witness: gets of a key held on one shard and of a key deleted from
\* the other returned the entry of the first alone.
C17_Witness ==
    /\ Done(1) /\ call[1].op = "gets" /\ call[1].keys = <<KB, KA>>
    /\ last[1].call.op = "delete" /\ last[1].call.key = KB /\ last[1].result = OkBool(TRUE)
    /\ result[1] = OkMap({Entry(KA, <<49, 48>>, 0, 2)})

\* C18: every request for key k is written to shard hash(k) % shard_count,
\* an index below shard_count, the same in this operation and the one
\* before it, and a keyed operation holds a connection of that shard only.
C18_Sharding ==
    \A p \in Procs :
        /\ \A e \in obs[p].served :
              e.key \in Keys => e.s = hash_function(e.key) % connections_count
                                /\ e.s >= 0 /\ e.s < connections_count
        /\ \A e \in obs[p].served : \A f \in last[p].obs.served :
              (e.key = f.key /\ e.key \in Keys) => e.s = f.s
        /\ (held[p] # NoConn /\ call[p].op \in KeyedOps)
           => held[p].s = hash_function(call[p].key) % connections_count
        /\ \A op \in KeyedOps : Ran(p, op) => \E e \in obs[p].served : e.key = call[p].key

\* C18 witness: gets found on shard 1 the item the set before it wrote to
\* shard 1, and asked shard 0 for the other key.
C18_Witness ==
    /\ Done(1) /\ call[1].op = "gets" /\ call[1].keys = <<KA, KB>>
    /\ last[1].call.op = "set" /\ last[1].call.key = KB /\ last[1].result = OkUnit
    /\ [s |-> 1, key |-> KB, item |-> last[1].obs.after] \in obs[1].served
    /\ \E e \in obs[1].served : e.key = KA /\ e.s = 0
    /\ \E x \in result[1].map : x.key = KB /\ x.cas = last[1].obs.after.cas

\* The number of requests for key k among reqs.
Asked(reqs, k) == Cardinality({i \in 1..Len(reqs) : reqs[i].opcode = OpGetKQ /\ reqs[i].key = k})

\* C19: the per-shard key lists of gets hold only input keys, and every
\* input key once in the list of its shard and in no other list.
C19_Partition ==
    \A p \in Procs :
        (call[p].op = "gets" /\ ~HasLongKey(call[p])) =>
            \A s \in Shards :
                /\ Range(con_keys(call[p].keys, s)) \subseteq Range(call[p].keys)
                /\ \A k \in Range(call[p].keys) :
                      Asked(RequestsOf(call[p], s), k) = IF s = Owner(k) THEN 1 ELSE 0

\* The shards that were written to for p's operation.
Contacted(p) == {e.s : e \in obs[p].served}

\* C20: gets takes connections of, and writes to, only shards that own one
\* of its keys, and to all of those when it succeeds; with no keys it
\* returns the empty map at once.
C20_GetsFanOut ==
    \A p \in Procs :
        call[p].op = "gets" =>
            LET owners == {Owner(k) : k \in Range(call[p].keys)}
            IN /\ Contacted(p) \subseteq owners
               /\ held[p] # NoConn => held[p].s \in owners
               /\ (Done(p) /\ result[p].kind = "ok") => Contacted(p) = owners
               /\ call[p].keys = <<>>
                    => /\ Done(p) /\ result[p] = OkMap({})
                       /\ Contacted(p) = {} /\ held[p] = NoConn

\* C20 witness: gets of two keys of shard 0, the first operation of the
\* client, returned its map and no connection of shard 1 was ever opened.
C20_Witness ==
    /\ Done(1) /\ call[1].op = "gets" /\ call[1].keys = <<KA, KC>>
    /\ result[1].kind = "ok" /\ Cardinality(result[1].map) = 2
    /\ Contacted(1) = {0}
    /\ last[1] = NoLast
    /\ \A c \in ConnIds : conns[1][c] = ClosedConn

\* The answer to p's last write makes the sub-operation that reads it fail:
\* it starts with a packet that is no response, or with a status that is
\* not success.
FailingAnswer(p) ==
    /\ obs[p].sent > 0
    /\ obs[p].fresh
    /\ Len(obs[p].resps) > 0
    /\ \/ obs[p].resps[1].magic # MagicResponse
       \/ obs[p].resps[1].status # OK_STATUS

\* C21: a gets one of whose sub-operations failed returns that error and no
\* entry of any shard, the shards that had answered before included; a gets
\* that returns entries has had no sub-operation fail.
C21_NoPartial ==
    \A p \in Procs :
        (Done(p) /\ call[p].op = "gets")
        => /\ FailingAnswer(p)
              => /\ result[p].kind = "err"
                 /\ result[p].map = {}
                 /\ result[p] = IF obs[p].resps[1].magic # MagicResponse
                                THEN ErrBadMagic(obs[p].resps[1].magic)
                                ELSE CommandError_from(obs[p].resps[1].status)
           /\ result[p].kind = "err" => result[p].map = {} /\ result[p].val = NoVal
           /\ result[p].kind = "ok" => todo[p] = {}

\* A gets over two shards: the first answered with an entry, the second
\* refused, and the gets returned the refusal and nothing else.
C21_Witness ==
    /\ Done(1) /\ call[1].op = "gets" /\ call[1].keys = <<KA, KB>>
    /\ FailingAnswer(1)
    /\ Cardinality({e.s : e \in obs[1].served}) = 2
    /\ acc[1].map # {}
    /\ result[1].kind = "err"
    /\ result[1].map = {}

\* The opcodes of the requests a verb writes for n keys.
VerbOpcodes(op, n) ==
    CASE op = "get" -> <<OpGet>>
      [] op \in {"set", "cas"} -> <<OpSet>>
      [] op = "add" -> <<OpAdd>>
      [] op = "replace" -> <<OpReplace>>
      [] op = "append" -> <<OpAppend>>
      [] op = "prepend" -> <<OpPrepend>>
      [] op = "delete" -> <<OpDelete>>
      [] op = "increment" -> <<OpIncrement>>
      [] op = "decrement" -> <<OpDecrement>>
      [] op = "touch" -> <<OpTouch>>
      [] op \in {"flush", "flush_with_delay"} -> <<OpFlush>>
      [] op = "version" -> <<OpVersion>>
      [] op = "stats" -> <<OpStat>>
      [] OTHER -> [i \in 1..n |-> OpGetKQ] \o <<OpNoop>>

\* The parts of a body in wire order.
BodyOrder == <<"extras", "key", "value">>

\* Request r is framed as the wire protocol asks.
Framed(r) ==
    LET hd == PacketHeader_write(r)
        inOrder(part) == \E i \in 1..Len(r.written) : r.written[i] = part
    IN /\ Len(hd) = 24
       /\ hd[1] = 128
       /\ hd[2] = r.opcode
       /\ FromBE(SubSeq(hd, 3, 4)) = r.key.len
       /\ hd[5] = Len(r.extras)
       /\ FromBE(SubSeq(hd, 9, 12)) = Len(r.extras) + r.key.len + Len(r.value)
       /\ r.written = SelectSeq(BodyOrder, inOrder)
       /\ \A part \in Range(BodyOrder) : PartLen(r, part) > 0 => inOrder(part)
       /\ BytesWritten(r) = 24 + FromBE(SubSeq(hd, 9, 12))

\* C30: every request a verb writes starts with a 24-byte header with magic
\* 0x80, the opcode of the verb and a total body length that is the sum of
\* the lengths of extras, key and value; after the header come the extras,
\* then the key, then the value, of the lengths the header gives, so that
\* the request is 24 + total_body_length bytes long.
C30_Framing ==
    \A p \in Procs :
        (pc[p] \in {"read", "done"} /\ obs[p].sent > 0)
        => LET reqs == RequestsOf(call[p], obs[p].conn.s)
           IN /\ \A i \in 1..Len(reqs) : Framed(reqs[i])
              /\ [i \in 1..Len(reqs) |-> reqs[i].opcode]
                    = VerbOpcodes(call[p].op, Len(reqs) - 1)

\* A gets of two keys of one shard has been written after a touch, a set
\* or an increment.
C30_Witness ==
    /\ pc[1] = "read"
    /\ last[1].call.op \in {"touch", "set", "increment"}
    /\ last[1].obs.sent > 0
    /\ call[1].op = "gets"
    /\ obs[1].sent = 3
    /\ BytesWritten(RequestsOf(call[1], obs[1].conn.s)[1]) > 24

\* The connection p wrote its last request on.
LastConn(p) == conns[obs[p].conn.s][obs[p].conn.c]

\* The first packet of the answer to p's last write, written on a connection
\* with nothing unread on it, does not start with the response magic.
BadMagicAnswer(p) ==
    /\ obs[p].sent > 0
    /\ obs[p].fresh
    /\ Len(obs[p].resps) > 0
    /\ obs[p].resps[1].magic # MagicResponse

\* C23: a header read that finds a first byte other than 0x81 fails with
\* BadMagic carrying that byte, and has read nothing but that byte: the
\* packet is still on the stream, one byte into its header.
C23_BadMagic ==
    \A p \in Procs :
        (Done(p) /\ BadMagicAnswer(p))
        => /\ result[p] = ErrBadMagic(obs[p].resps[1].magic)
           /\ obs[p].read = 0
           /\ LastConn(p).st # "closed"
              => /\ LastConn(p).stream.buf = obs[p].resps
                 /\ LastConn(p).stream.off = 1

\* A get was answered with a packet that starts with the request magic.
C23_Witness ==
    /\ Done(1) /\ call[1].op = "get"
    /\ BadMagicAnswer(1)
    /\ obs[1].resps[1].magic = MagicRequest
    /\ result[1] = ErrBadMagic(MagicRequest)
    /\ LastConn(1).stream.off = 1

\* The first header of the answer to p's last write gives a total body
\* length that is less than its extras and key lengths together.
ShortAnswer(p) ==
    /\ obs[p].sent > 0
    /\ obs[p].fresh
    /\ Len(obs[p].resps) > 0
    /\ obs[p].resps[1].magic = MagicResponse
    /\ obs[p].resps[1].total_body_length
          < obs[p].resps[1].extras_length + obs[p].resps[1].key_length

\* C24: reading a response whose header has total_body_length <
\* extras_length + key_length ends with a malformed-response error: the
\* read does not panic, and it does not go on to read a value of a length
\* that wrapped around.
C24_BodyLength ==
    \A p \in Procs :
        ShortAnswer(p)
        => /\ pc[p] \notin {"panicked_read", "blocked"}
           /\ Done(p) => result[p] = Err("BadResponse")

\* The error the status table gives for a status other than 0x0.
StatusTable(status) ==
    IF status = 1 THEN Err("KeyNotFound")
    ELSE IF status = 2 THEN Err("KeyExists")
    ELSE IF status = 3 THEN Err("ValueTooLarge")
    ELSE IF status = 4 THEN Err("InvalidArguments")
    ELSE IF status = 6 THEN Err("IncrOrDecrOnNonNumericValue")
    ELSE IF status = 32 THEN Err("AuthenticationRequired")
    ELSE [Err("Unknown") EXCEPT !.num = status]

\* C25: Response::err passes the response on exactly when its status is
\* 0x0, and else gives the error the table has for the status (Unknown with
\* the code for a status the table does not name): set, which returns what
\* Response::err gives, succeeds exactly on 0x0 and else returns the error
\* of the table, and every error a verb returns for a status is the one of
\* the table.
C25_StatusTable ==
    \A p \in Procs :
        OneAnswer(p) =>
            LET status == obs[p].resps[1].status
            IN /\ call[p].op = "set"
                    => /\ result[p] = OkUnit <=> status = OK_STATUS
                       /\ status # OK_STATUS => result[p] = StatusTable(status)
                       /\ Response_err(obs[p].resps[1])
                             = IF status = OK_STATUS THEN NoResult ELSE StatusTable(status)
               /\ (call[p].op \in {"get", "delete", "touch", "cas"} /\ result[p].kind = "err")
                    => result[p] = StatusTable(status)

\* A set was refused with 0x85 and returned Unknown(0x85), after a set that
\* was refused with 0x5 had returned Unknown(0x5).
C25_Witness ==
    /\ OneAnswer(1) /\ call[1].op = "set"
    /\ obs[1].resps[1].status = StBusy
    /\ result[1] = ErrUnknown(StBusy)
    /\ last[1].call.op = "set"
    /\ last[1].result = ErrUnknown(StNotStored)

\* What holds of the client once connects_with has run.
Constructed ==
    client.made # "no"
    => /\ client.made = "err"
            <=> \/ client.urls = <<>>
                \/ \E i \in 1..Len(client.urls) : ~Url_parse(client.urls[i]).ok
       /\ client.made = "ok"
            => /\ Len(client.connections) >= 1
               /\ Len(client.connections) = Len(client.urls)
               /\ \A i \in 1..Len(client.urls) :
                     client.connections[i] = Url_parse(client.urls[i]).url
               /\ client.hash_function \in HashFunctions
       /\ client.made = "err" => client.connections = <<>>

\* C22: construction fails when the URL list is empty or a URL does not
\* parse, so a constructed client has at least one shard; no operation runs
\* on anything but a constructed client, and the shard list and the hash
\* function of a constructed client never change.
C22_ShardSet ==
    /\ [](Constructed /\ \A p \in Procs : pc[p] # "idle" => client.made = "ok")
    /\ [][client.made # "no" => client' = client]_vars

\* A client was built from two URLs and an operation on it has returned.
C22_Witness ==
    /\ client.made = "ok"
    /\ Len(client.connections) = 2
    /\ Done(1)
    /\ obs[1].sent > 0

\* C26: the pool hands out an idle connection only after a version request
\* on it has succeeded: taking a connection does not bring the caller
\* down, and an idle connection the peer has closed is not handed out.
C26_LivenessCheck ==
    \A p \in Procs :
        /\ pc[p] # "panicked"
        /\ obs[p].handed.idle => ~obs[p].handed.eof

\* C27: on every connection to a URL with username and password the SASL
\* PLAIN exchange has been completed before the pool hands it out.
C27_AuthFirst ==
    \A s \in Shards : \A c \in ConnIds :
        (conns[s][c].st # "closed" /\ HasCredentials(client.connections[s + 1]))
        => conns[s][c].authed

\* C28: the value bytes set, add, replace, append, prepend and cas put on
\* the wire for a string and for a byte vector are the bytes of the input,
\* nothing before and nothing after them.
C28_Verbatim ==
    \A p \in Procs :
        (/\ pc[p] \in {"read", "done"} /\ obs[p].sent > 0
         /\ call[p].op \in StoreOps \cup ConcatOps \cup {"cas"}
         /\ call[p].val.ty \in {"String", "Vec<u8>"})
        => LET r == RequestsOf(call[p], obs[p].conn.s)[1]
           IN /\ r.value = call[p].val.v
              /\ r.total_body_length = r.extras_length + r.key_length + Len(call[p].val.v)

\* The integer types of the model's values.
IntegerTypes == {"u64", "usize"}

\* b is the decimal text of n.
IsDecimalOf(b, n) ==
    /\ Decimal(b)
    /\ DecValue(b) = n
    /\ Len(b) > 1 => b[1] # 48

\* C29: the get::<String> that follows set(k, n) of an integer n returns the
\* decimal text of n (which is what the server holds), and the get of an
\* integer type that follows set(k, s) of a decimal string s returns the
\* number s denotes.
C29_DecimalText ==
    \A p \in Procs :
        (Ran(p, "get") /\ Follows(p, "set") /\ last[p].result = OkUnit)
        => /\ last[p].call.val.ty \in IntegerTypes
                => /\ IsDecimalOf(obs[p].before.value, last[p].call.val.v[1])
                   /\ call[p].ty = "String"
                        => /\ result[p].tag = "some"
                           /\ result[p].val.ty = "String"
                           /\ IsDecimalOf(result[p].val.v, last[p].call.val.v[1])
           /\ (last[p].call.val.ty = "String" /\ Decimal(last[p].call.val.v)
               /\ call[p].ty = "u64")
                => result[p] = OkSome(U64Val(DecValue(last[p].call.val.v)))

\* p's verb has written its requests on a connection.
Written(p) == obs[p].sent > 0 /\ pc[p] \in {"read", "blocked", "done", "acquire"}

\* C31: every verb, gets included, flushes the stream after the last byte
\* of its request and before it reads the first byte of a response, and
\* reads no response before its request is written.
C31_WriteFlushRead ==
    \A p \in Procs :
        /\ Written(p) => obs[p].flushed
        /\ obs[p].read > 0 => obs[p].sent > 0

\* The requests of p's last write are those of a multi-get of the keys
\* `keys`: a GetKQ per key, in order, then one Noop, and no other.
Pipelined(reqs, keys) ==
    /\ Len(reqs) = Len(keys) + 1
    /\ \A i \in 1..Len(keys) : reqs[i].opcode = OpGetKQ /\ reqs[i].key = keys[i]
    /\ reqs[Len(reqs)].opcode = OpNoop
    /\ Cardinality({i \in 1..Len(reqs) : reqs[i].opcode = OpNoop}) = 1

\* A step in which p takes a response from a connection.
Reads(p) == pc[p] = "read" /\ obs'[p].read > obs[p].read

\* C32: on one connection, gets writes one GetKQ request per key of its
\* list, in list order, then exactly one Noop request, and reads no
\* response before the Noop request has been written.
C32_Pipelining ==
    /\ [](\A p \in Procs :
            (call[p].op = "gets" /\ obs[p].sent > 0)
            => Pipelined(obs[p].reqs, con_keys(call[p].keys, obs[p].conn.s)))
    /\ [][\A p \in Procs :
            (call[p].op = "gets" /\ Reads(p))
            => /\ obs[p].conn = held[p]
               /\ Len(obs[p].reqs) > 0
               /\ obs[p].reqs[Len(obs[p].reqs)].opcode = OpNoop]_vars

\* C32 witness: gets of two keys of one shard has written GetKQ, GetKQ,
\* Noop and has read the three responses.
C32_Witness ==
    /\ Done(1) /\ call[1].op = "gets" /\ call[1].keys = <<KC, KA>>
    /\ Len(obs[1].reqs) = 3 /\ obs[1].reqs[1].key = KC /\ obs[1].reqs[2].key = KA
    /\ obs[1].read = 3

\* The place of the first Noop response in resps (0: there is none).
FirstNoop(resps) ==
    IF \E i \in 1..Len(resps) : resps[i].opcode = OpNoop
    THEN CHOOSE i \in 1..Len(resps) :
            resps[i].opcode = OpNoop /\ \A j \in 1..(i - 1) : resps[j].opcode # OpNoop
    ELSE 0

\* The lengths of a response's header fit together.
LengthsFit(r) == r.total_body_length >= r.key_length + r.extras_length

\* p's gets is for one connection, which had nothing unread on it, and the
\* answer written to it is items, as many as gets may read, then a Noop.
ItemsThenNoop(p) ==
    LET resps == obs[p].resps
        n == FirstNoop(resps)
    IN /\ call[p].op = "gets" /\ obs[p].sent > 0 /\ obs[p].fresh
       /\ ShardsOf(call[p]) = {obs[p].conn.s}
       /\ n > 0 /\ n <= KeyCount(p) + 1
       /\ \A i \in 1..(n - 1) : IsHit(resps[i]) /\ LengthsFit(resps[i])
       /\ resps[n].magic = MagicResponse /\ resps[n].status = OK_STATUS /\ LengthsFit(resps[n])

\* C33: reading the answer to a multi-get, every response before the first
\* Noop response adds the entry key -> (value, flags, cas), the first Noop
\* response ends the read with success, and nothing after the Noop response
\* is taken from the stream.
C33_NoopEnds ==
    \A p \in Procs :
        (Done(p) /\ ItemsThenNoop(p))
        => LET resps == obs[p].resps
               n == FirstNoop(resps)
               \* the last response for its key before the Noop
               stays(i) == \A j \in (i + 1)..(n - 1) : resps[j].key # resps[i].key
           IN /\ result[p].kind = "ok"
              /\ result[p].map =
                    {Entry(resps[i].key, resps[i].value, FromBE(resps[i].extras), resps[i].cas) :
                        i \in {j \in 1..(n - 1) : stays(j)}}
              /\ obs[p].read = n
              /\ LastConn(p).stream.buf = SubSeq(resps, n + 1, Len(resps))
              /\ LastConn(p).stream.off = 0

\* C33 witness: a gets of two keys was answered with two items, the Noop and
\* one more packet; it returned the two entries and left the packet unread.
C33_Witness ==
    /\ Done(1) /\ ItemsThenNoop(1)
    /\ FirstNoop(obs[1].resps) = 3 /\ Len(obs[1].resps) = 4
    /\ result[1].kind = "ok" /\ Cardinality(result[1].map) = 2
    /\ obs[1].read = 3
    /\ Len(LastConn(1).stream.buf) = 1

\* The i-th response read off the wire.
Read(i) == wire.out[i].res

\* C34: a successful parse_response takes exactly 24 + total_body_length
\* bytes from the stream: the header, then extras_length bytes as extras,
\* key_length bytes as key and the rest as value; the stream is then at the
\* first byte of the next response header.
C34_Consumption ==
    \A i \in 1..Len(wire.out) :
        Read(i).ok =>
            LET from == wire.out[i].from
                h == Read(i).header
                b == wire.stream.bytes
            IN /\ Read(i).s.pos - from = 24 + h.total_body_length
               /\ Read(i).extras = SubSeq(b, from + 25, from + 24 + h.extras_length)
               /\ Read(i).key = SubSeq(b, from + 25 + h.extras_length,
                                       from + 24 + h.extras_length + h.key_length)
               /\ Read(i).value = SubSeq(b, from + 25 + h.extras_length + h.key_length,
                                         from + 24 + h.total_body_length)
               \* what was read is what the peer sent
               /\ Read(i).extras = wire.sent[i].extras
               /\ Read(i).key = KeyBytes(wire.sent[i].key)
               /\ Read(i).value = wire.sent[i].value
               /\ h.opcode = wire.sent[i].opcode
               /\ h.vbucket_id_or_status = wire.sent[i].status
               /\ h.cas = wire.sent[i].cas
               \* and what is left is the packets after it
               /\ SubSeq(b, Read(i).s.pos + 1, Len(b))
                     = Packets(SubSeq(wire.sent, i + 1, Len(wire.sent)))

\* C34 witness: a response with extras, key and value was read, and the
\* response after it too.
C34_Witness ==
    /\ Len(wire.out) = 2
    /\ Read(1).ok /\ Read(2).ok
    /\ Len(Read(1).extras) = 4 /\ Len(Read(1).key) = 2 /\ Len(Read(1).value) = 3
    /\ Read(1).s.pos = 33
    /\ wire.out[2].from = 33

\* C35: the get::<u64> that follows a decrement of a key returns the number
\* the decrement returned, also when the server keeps the shorter number
\* padded with spaces to the length it had.
C35_PaddedReadBack ==
    \A p \in Procs :
        (Ran(p, "get") /\ call[p].ty = "u64" /\ Follows(p, "decrement")
         /\ last[p].result.kind = "ok" /\ last[p].result.tag = "u64")
        => result[p] = OkSome(U64Val(last[p].result.num))

\* The variants of MemcachedError::ParseError a decoder of get returns.
ParseErrors == {"ParseIntError", "ParseBoolError", "FromUtf8Error"}

\* p's operation is a get of a number on a key whose bytes are no decimal.
UndecodableGet(c, o) ==
    /\ c.op = "get" /\ c.ty = "u64"
    /\ o.sent > 0 /\ o.fresh
    /\ o.before.present /\ ~Decimal(o.before.value)

\* C36: a get of a numeric type on bytes that are no decimal of the type
\* returns a parse error, not a command or server error; the item is as it
\* was, the whole response has been taken from the stream, and the next
\* operation on the connection reads the answer to its own request.
C36_DecodeLocal ==
    \A p \in Procs :
        /\ (Done(p) /\ UndecodableGet(call[p], obs[p]))
           => /\ result[p].kind = "err" /\ result[p].err \in ParseErrors
              /\ obs[p].after = obs[p].before
              /\ obs[p].read = Len(obs[p].resps)
              /\ LastConn(p).stream = NewStream
              /\ ~LastConn(p).tainted /\ LastConn(p).st = "idle"
        /\ (UndecodableGet(last[p].call, last[p].obs) /\ obs[p].sent > 0
            /\ obs[p].conn = last[p].obs.conn)
           => /\ obs[p].fresh
              /\ pc[p] = "read"
                    => conns[held[p].s][held[p].c].stream = [NewStream EXCEPT !.buf = obs[p].resps]
              /\ (Done(p) /\ call[p].op \in KeyedOps)
                    => result[p] = AloneResult(call[p], obs[p].before)

\* C36 witness: get::<u64> of a key holding "a" returned ParseIntError, and
\* the set that followed on the same connection returned Ok.
C36_Witness ==
    /\ UndecodableGet(last[1].call, last[1].obs)
    /\ last[1].result = Err("ParseIntError")
    /\ Done(1) /\ call[1].op = "set" /\ obs[1].conn = last[1].obs.conn
    /\ result[1] = OkUnit

\* C37: a flush that returns Ok has sent a flush request to every shard of
\* the list and no shard holds an item afterwards, so the get that follows
\* returns None whichever shard owns its key; a flush that fails on a shard
\* returns the error of that shard and has sent nothing to the shards after
\* it in the list.
C37_FlushAll ==
    \A p \in Procs :
        /\ (Done(p) /\ call[p].op = "flush" /\ result[p].kind = "ok")
           => /\ result[p] = OkUnit
              /\ Contacted(p) = Shards
              /\ \A s \in Shards : store[s] = EmptyStore
        /\ (Ran(p, "get") /\ last[p].call.op = "flush" /\ last[p].result = OkUnit)
           => /\ ~obs[p].before.present
              /\ obs[p].resps[1].status = StKeyNotFound => result[p] = OkNone
        /\ (Done(p) /\ call[p].op = "flush" /\ result[p].kind = "err" /\ obs[p].sent > 0)
           => /\ obs[p].resps[1].status # OK_STATUS
              /\ result[p] = CommandError_from(obs[p].resps[1].status)
              /\ Contacted(p) = {s \in Shards : s <= obs[p].conn.s}
              /\ obs[p].sent = obs[p].conn.s + 1

\* C37 witness: on a server holding keys on both shards, flush was refused
\* by the first shard; it returned the error and the second shard still
\* holds its key.
C37_Witness ==
    /\ Done(1) /\ call[1].op = "flush" /\ result[1].kind = "err"
    /\ Contacted(1) = {0}
    /\ store[1][KB.id].present

\* The get of a key of the second shard returned None after a flush that
\* returned Ok, the key having been there before the flush.
C37_Flushed ==
    /\ Ran(1, "get") /\ call[1].key = KB /\ result[1] = OkNone
    /\ last[1].call.op = "flush" /\ last[1].result = OkUnit
    /\ last[1].obs.sent = 2

\* C38: cas(k, v, e, cas_id) on a key the server does not hold returns false
\* and does not create the key, for every cas_id, 0 included; and cas
\* returns true only when the key is held with a token equal to cas_id.
C38_CasMissing ==
    \A p \in Procs :
        /\ (Ran(p, "cas") /\ ~obs[p].before.present)
           => result[p] = OkBool(FALSE) /\ ~obs[p].after.present
        /\ (Ran(p, "cas") /\ result[p] = OkBool(TRUE))
           => obs[p].before.present /\ obs[p].before.cas = call[p].cas

\* C38 with cas_id 0 left out: what holds of the code.
C38_CasMissingNonZero ==
    \A p \in Procs :
        /\ (Ran(p, "cas") /\ call[p].cas # 0 /\ ~obs[p].before.present)
           => result[p] = OkBool(FALSE) /\ ~obs[p].after.present
        /\ (Ran(p, "cas") /\ call[p].cas # 0 /\ result[p] = OkBool(TRUE))
           => obs[p].before.present /\ obs[p].before.cas = call[p].cas

\* p's multi-get has written its requests on a connection and reads.
GetsReads(p) == call[p].op = "gets" /\ pc[p] = "read"

\* C39: against a server that answers each GetKQ hit with one response,
\* says nothing on a miss and echoes the Noop, the read of a multi-get
\* always ends, for every key list: the answer it reads ends with the Noop
\* response within the turns of its loop, it takes the whole answer in one
\* go and neither waits for more nor panics, the multi-get returns Ok,
\* never the "expected end" error, and no connection holds an unread byte
\* afterwards.
C39_GetsCompletes ==
    /\ [](\A p \in Procs :
            /\ (call[p].op = "gets" /\ obs[p].sent > 0) => pc[p] \notin {"blocked", "panicked_read"}
            /\ GetsReads(p)
               => /\ conns[held[p].s][held[p].c].stream.buf = obs[p].resps
                  /\ FirstNoop(obs[p].resps) = Len(obs[p].resps)
                  /\ Len(obs[p].resps) <= KeyCount(p) + 1
            /\ (Done(p) /\ call[p].op = "gets" /\ obs[p].sent > 0)
               => /\ result[p].kind = "ok"
                  /\ \A s \in Shards : \A c \in ConnIds : Len(conns[s][c].stream.buf) = 0)
    /\ [](\A p \in Procs : Done(p) /\ call[p].op = "gets" => result[p] # Err("BadResponse"))
    /\ [][\A p \in Procs :
            (GetsReads(p) /\ pc'[p] # "read")
            => /\ pc'[p] \in {"acquire", "done"}
               /\ Len(conns'[held[p].s][held[p].c].stream.buf) = 0
               /\ obs'[p].read = obs[p].read + Len(obs[p].resps)]_vars

\* C39 witness: a multi-get naming one held key twice has read two items
\* and the Noop response and returned the entry.
C39_Witness ==
    /\ Done(1) /\ call[1].op = "gets" /\ call[1].keys = <<KA, KA>>
    /\ obs[1].read = 3
    /\ result[1].kind = "ok" /\ result[1].map # {}

\* C40: for a value of a type serialize_bytes writes as text (String, the
\* integer types, bool), deserialize_bytes applied to the bytes
\* serialize_bytes made of it returns the value.
C40_RoundTrip ==
    (coded.stage = "deserialized" /\ can_as_str(coded.val.ty))
    => coded.out = DecodeOk(coded.val)

\* C40 for the types other than bool: what holds of the code.
C40_RoundTripButBool ==
    (coded.stage = "deserialized" /\ coded.val.ty # "bool")
    => coded.out = DecodeOk(coded.val)


====
